---- MODULE Spec2Model ----
(***************************************************************************)
(* ForexJoey: the fusion-and-adaptive-weighting pipeline.                  *)
(*                                                                         *)
(*   ai-engine/services/ai_engine.py    analyze_forex_pair,                *)
(*                                      combine_analyses,                  *)
(*                                      fallback_combine_analyses,         *)
(*                                      generate_trading_signal            *)
(*   backend/app/db/reflection.py       ReflectionEngine                   *)
(*   backend/app/db/supabase.py         Database (ai_performance_metrics)  *)
(*                                                                         *)
(* Numbers.  Python floats are modelled by exact arithmetic:               *)
(*   - confidences, weights, impacts and accuracies are hundredths         *)
(*     (80 is 0.80) or exact fractions [n, d] of hundredths / of one;      *)
(*   - prices are integers in units of 0.000001 (1100000 is 1.1000); the   *)
(*     bid/ask inputs are multiples of 400 and the ATR inputs are even, so *)
(*     that *0.005, *1.5 and *2.5 are exact.                               *)
(* A Python dict is a record; a key that may be absent has a has_<key>     *)
(* flag beside it.                                                         *)
(***************************************************************************)
EXTENDS Integers, Sequences, FiniteSets, TLC

VARIABLES
    stage,              \* position of one analyze_forex_pair request
    request,            \* its arguments: currency_pair, timeframe, current_price
    analyses,           \* the four source analyses (ai_engine.py:45-48)
    response,           \* what the reasoning service did with the fusion call
    combined_analysis,  \* what combine_analyses returned, then with "signal"
    signal,             \* combined_analysis["signal"]
    raised,             \* the exception that left the request and the
                        \* function it left first; "none" when there is none
    atr,                \* local atr of generate_trading_signal
    metrics_table,      \* rows of the ai_performance_metrics table
    next_id,            \* next primary key the table hands out
    workers,            \* the reflect_on_signal_outcome calls in flight
    started,            \* reflections started so far
    completed,          \* per bucket: _update_performance_metrics calls that
                        \* saved, and their arguments in the order of the saves
    failed,             \* the source analyses of the request that failed
    technical_data,     \* argument of one analyze_technical_data call
    technical_analysis, \* what that call returned or raised
    pair,               \* currency_pair of one analyze_economic_events call
    events,             \* events of that call
    currencies,         \* the base and quote currency that call derived,
                        \* and what the call returned
    manager,            \* the ConnectionManager: its five collections
    sockets,            \* per websocket: where its connection stands
    price_tasks,        \* per websocket and pair: send_price_updates tasks
                        \* that are running
    disconnects         \* per websocket: how its last disconnect call ended

vars == <<stage, request, analyses, response, combined_analysis, signal,
          raised, atr,
          metrics_table, next_id, workers, started, completed,
          failed, technical_data, technical_analysis, pair, events,
          currencies, manager, sockets, price_tasks, disconnects>>

fusion_vars == <<stage, request, analyses, response, combined_analysis, signal,
                 raised, atr, failed>>
reflection_vars == <<metrics_table, next_id, workers, started, completed>>
unit_vars == <<technical_data, technical_analysis, pair, events, currencies>>
socket_vars == <<manager, sockets, price_tasks, disconnects>>

----------------------------------------------------------------------------
(* Exact fractions                                                         *)

Abs(x) == IF x < 0 THEN -x ELSE x

RECURSIVE GCD(_, _)
GCD(a, b) == IF b = 0 THEN a ELSE GCD(b, a % b)

\* n/d with d > 0, in lowest terms
Frac(n, d) == LET g == GCD(Abs(n), d) IN [n |-> n \div g, d |-> d \div g]

FracAdd(a, b) == Frac(a.n * b.d + b.n * a.d, a.d * b.d)
FracMul(a, b) == Frac(a.n * b.n, a.d * b.d)
\* a / b for b > 0
FracDiv(a, b) == Frac(a.n * b.d, a.d * b.n)
FracGeq(a, b) == a.n * b.d >= b.n * a.d
FracLt(a, b) == a.n * b.d < b.n * a.d

RECURSIVE SumSeq(_)
SumSeq(s) == IF s = <<>> THEN 0 ELSE Head(s) + SumSeq(Tail(s))

----------------------------------------------------------------------------
(* Opinions: what the four source analyses hand to the fusion              *)

Sources == <<"technical", "fundamental", "sentiment", "economic">>
SourceSet == {Sources[i] : i \in 1..4}

\* a factor {name, value, ...} of an analysis; kind "str" is a bare string
DictFactor(name, value) == [kind |-> "dict", name |-> name, value |-> value]
StrFactor(name) == [kind |-> "str", name |-> name, value |-> 0]

Opinion(direction, confidence, factors) ==
    [direction |-> direction, has_confidence_score |-> TRUE,
     confidence_score |-> confidence, factors |-> factors, json_ok |-> TRUE]

\* the dict format_sentiment_result returns: lower-case direction, the
\* confidence under the key "confidence", no "confidence_score", no "factors"
SentimentResult(direction) ==
    [direction |-> direction, has_confidence_score |-> FALSE,
     confidence_score |-> 0, factors |-> <<>>, json_ok |-> TRUE]

----------------------------------------------------------------------------
(* fallback_combine_analyses (ai_engine.py:161-232)                        *)

\* direction_map.get(d, 0)
direction_map(d) == CASE d = "BUY" -> 1 [] d = "SELL" -> -1 [] OTHER -> 0

\* the fixed weights of the fallback, in hundredths
weights(source) ==
    CASE source = "technical" -> 40
      [] source = "fundamental" -> 30
      [] source = "sentiment" -> 15
      [] source = "economic" -> 15

\* the +-0.2 cut of the combined value, in hundredths
DirectionThreshold == 20

\* analysis.get("confidence_score", 0.5)
get_confidence_score(analysis) ==
    IF analysis.has_confidence_score THEN analysis.confidence_score ELSE 50

combined_value_of(tech, fund, sent, econ) ==
    direction_map(tech.direction) * weights("technical")
  + direction_map(fund.direction) * weights("fundamental")
  + direction_map(sent.direction) * weights("sentiment")
  + direction_map(econ.direction) * weights("economic")

\* a threshold that admits the boundary value
fallback_direction_inclusive(combined_value) ==
    IF combined_value >= DirectionThreshold THEN "BUY"
    ELSE IF combined_value <= -DirectionThreshold THEN "SELL"
    ELSE "NEUTRAL"

fallback_direction(combined_value) ==
    IF combined_value > DirectionThreshold THEN "BUY"
    ELSE IF combined_value < -DirectionThreshold THEN "SELL"
    ELSE "NEUTRAL"

\* a mean that forgets to filter on agreement for the economic source
fallback_confidence_unfiltered(direction, tech, fund, sent, econ) ==
    LET c1 == IF tech.direction = direction
              THEN <<get_confidence_score(tech)>> ELSE <<>>
        c2 == IF fund.direction = direction
              THEN Append(c1, get_confidence_score(fund)) ELSE c1
        c3 == IF sent.direction = direction
              THEN Append(c2, get_confidence_score(sent)) ELSE c2
        c4 == Append(c3, get_confidence_score(econ))
    IN  Frac(SumSeq(c4), Len(c4))

\* confidence_factors and their mean, in hundredths
fallback_confidence(direction, tech, fund, sent, econ) ==
    LET c1 == IF tech.direction = direction
              THEN <<get_confidence_score(tech)>> ELSE <<>>
        c2 == IF fund.direction = direction
              THEN Append(c1, get_confidence_score(fund)) ELSE c1
        c3 == IF sent.direction = direction
              THEN Append(c2, get_confidence_score(sent)) ELSE c2
        c4 == IF econ.direction = direction
              THEN Append(c3, get_confidence_score(econ)) ELSE c3
    IN  IF Len(c4) > 0 THEN Frac(SumSeq(c4), Len(c4)) ELSE Frac(50, 1)

\* The returned dict.  summary and reasoning are the values their f-strings
\* format; analysis_time (the clock) is left out.
fallback_combine_analyses(currency_pair, timeframe, tech, fund, sent, econ) ==
    LET combined_value == combined_value_of(tech, fund, sent, econ)
        direction == fallback_direction(combined_value)
        confidence_score == fallback_confidence(direction, tech, fund, sent, econ)
    IN  [currency_pair |-> currency_pair,
         timeframe |-> timeframe,
         has_direction |-> TRUE,
         direction |-> direction,
         has_confidence_score |-> TRUE,
         confidence_score |-> confidence_score,
         summary |-> [by |-> "fallback", direction |-> direction,
                      confidence_score |-> confidence_score],
         technical_factors |-> tech.factors,
         fundamental_factors |-> fund.factors,
         sentiment_factors |-> sent.factors,
         economic_factors |-> econ.factors,
         reasoning |-> [by |-> "fallback",
                        directions |-> <<tech.direction, fund.direction,
                                         sent.direction, econ.direction>>]]

----------------------------------------------------------------------------
(* combine_analyses (ai_engine.py:77-159)                                  *)

\* What the reasoning service did with the one request: the call failed
\* ("transport_error"), the body was not JSON ("non_json"), or the body
\* parsed to the object `body` ("json").
Outcome(kind, body) == [kind |-> kind, body |-> body]

\* A JSON object of the reasoning service.  It is not validated by the code,
\* so "direction" and "confidence_score" may be absent or out of range.
LlmAnalysis(has_direction, direction, has_score, score, technical_factors) ==
    [has_direction |-> has_direction, direction |-> direction,
     has_confidence_score |-> has_score,
     confidence_score |-> score,
     technical_factors |-> technical_factors]

Returned(value) == [raised |-> "none", value |-> value]
Raised(exception, value) == [raised |-> exception, value |-> value]

\* lines 138-147: json.loads of the body plus the metadata keys
analysis_from_response(currency_pair, timeframe, body) ==
    [currency_pair |-> currency_pair,
     timeframe |-> timeframe,
     has_direction |-> body.has_direction,
     direction |-> body.direction,
     has_confidence_score |-> body.has_confidence_score,
     confidence_score |-> Frac(body.confidence_score, 1),
     summary |-> [by |-> "llm", direction |-> body.direction,
                  confidence_score |-> Frac(body.confidence_score, 1)],
     technical_factors |-> body.technical_factors,
     fundamental_factors |-> <<>>,
     sentiment_factors |-> <<>>,
     economic_factors |-> <<>>,
     reasoning |-> [by |-> "llm", directions |-> <<>>]]

\* lines 96-124: the prompt is formatted before the try; json.dumps raises
\* TypeError on a value it cannot encode (a numpy integer, for one)
prompt_built(tech, fund, sent, econ) ==
    tech.json_ok /\ fund.json_ok /\ sent.json_ok /\ econ.json_ok

combine_analyses(currency_pair, timeframe, tech, fund, sent, econ, outcome) ==
    LET fallback == fallback_combine_analyses(currency_pair, timeframe,
                                              tech, fund, sent, econ)
    IN  IF ~prompt_built(tech, fund, sent, econ)
        THEN Raised("TypeError", fallback)
        ELSE IF outcome.kind = "json"
        THEN Returned(analysis_from_response(currency_pair, timeframe,
                                             outcome.body))
        ELSE Returned(fallback)

----------------------------------------------------------------------------
(* generate_trading_signal (ai_engine.py:234-312)                          *)

\* the confidence gate, in hundredths (ai_engine.py:61 and :246)
MinConfidence == 65

NoSignal ==
    [generate |-> FALSE, reason |-> "", direction |-> "", entry_price |-> 0,
     stop_loss |-> 0, take_profit |-> 0, risk_reward_ratio |-> Frac(0, 1),
     confidence_score |-> Frac(0, 1), expected_duration |-> "",
     analysis_summary |-> [by |-> "", direction |-> "",
                           confidence_score |-> Frac(0, 1)],
     technical_factors |-> <<>>, fundamental_factors |-> <<>>,
     has_sentiment_factors |-> FALSE, sentiment_factors |-> <<>>,
     economic_events |-> <<>>,
     ai_reasoning |-> [by |-> "", directions |-> <<>>]]

Suppressed(reason) == [NoSignal EXCEPT !.reason = reason]

\* timeframe_duration_map.get(timeframe, "Unknown")
timeframe_duration_map(timeframe) ==
    CASE timeframe = "M15" -> "2-8 hours"
      [] timeframe = "H1" -> "1-2 days"
      [] timeframe = "H4" -> "2-5 days"
      [] timeframe = "D1" -> "1-3 weeks"
      [] timeframe = "W1" -> "3-8 weeks"
      [] OTHER -> "Unknown"

\* line 260: "atr" in technical_factors -- true only of a bare string "atr"
atr_in(technical_factors) ==
    \E i \in 1..Len(technical_factors) :
        technical_factors[i].kind = "str" /\ technical_factors[i].name = "atr"

\* line 261: next((f for f in factors if f.get("name") == "atr"), {}): the
\* first element that is a bare string (f.get raises AttributeError) or a
\* dict named atr; <<>> when there is none
RECURSIVE first_atr(_)
first_atr(factors) ==
    IF factors = <<>> THEN <<>>
    ELSE IF Head(factors).kind = "str" \/ Head(factors).name = "atr"
    THEN <<Head(factors)>>
    ELSE first_atr(Tail(factors))

\* entry_price * 0.005
default_atr(entry_price) == (entry_price * 5) \div 1000

\* lines 258-265: [raised, atr]
volatility_unit(technical_factors, entry_price) ==
    IF atr_in(technical_factors)
    THEN LET f == first_atr(technical_factors)
         IN  IF f # <<>> /\ f[1].kind = "str"
             THEN Raised("AttributeError", 0)
             ELSE LET value == IF f = <<>> THEN 0 ELSE f[1].value
                  IN  Returned(IF value = 0 THEN default_atr(entry_price)
                               ELSE value)
    ELSE Returned(default_atr(entry_price))

\* the stop on the wrong side of the entry for SELL
stop_loss_same_side(direction, entry_price, a) ==
    entry_price - ((a * 15) \div 10)

\* lines 268-273
stop_loss_of(direction, entry_price, a) ==
    IF direction = "BUY" THEN entry_price - ((a * 15) \div 10)
    ELSE entry_price + ((a * 15) \div 10)

take_profit_of(direction, entry_price, a) ==
    IF direction = "BUY" THEN entry_price + ((a * 25) \div 10)
    ELSE entry_price - ((a * 25) \div 10)

\* reward measured to the stop instead of the target
risk_reward_ratio_swapped(entry_price, stop_loss, take_profit) ==
    LET risk == Abs(entry_price - stop_loss)
        reward == Abs(stop_loss - entry_price)
    IN  IF risk > 0 THEN Frac(reward, risk) ELSE Frac(0, 1)

\* lines 275-278
risk_reward_ratio_of(entry_price, stop_loss, take_profit) ==
    LET risk == Abs(entry_price - stop_loss)
        reward == Abs(take_profit - entry_price)
    IN  IF risk > 0 THEN Frac(reward, risk) ELSE Frac(0, 1)

\* [raised, value (the signal dict), atr]; the dict of lines 290-307 has the
\* keys technical_factors, fundamental_factors and economic_events, and no
\* key sentiment_factors
generate_trading_signal(currency_pair, timeframe, analysis, current_price) ==
    IF ~analysis.has_direction
    THEN [raised |-> "KeyError", value |-> NoSignal, atr |-> 0]
    ELSE IF analysis.direction = "NEUTRAL"
            \/ FracLt(analysis.confidence_score, Frac(MinConfidence, 1))
    THEN [raised |-> "none", atr |-> 0,
          value |-> Suppressed("Direction is {direction} or confidence too low")]
    ELSE
    LET direction == analysis.direction
        entry_price == IF direction = "BUY" THEN current_price.ask
                       ELSE current_price.bid
        vol == volatility_unit(analysis.technical_factors, entry_price)
        stop_loss == stop_loss_of(direction, entry_price, vol.value)
        take_profit == take_profit_of(direction, entry_price, vol.value)
    IN  IF vol.raised # "none"
        THEN [raised |-> vol.raised, value |-> NoSignal, atr |-> 0]
        ELSE [raised |-> "none", atr |-> vol.value,
              value |->
                [generate |-> TRUE, reason |-> "",
                 direction |-> direction,
                 entry_price |-> entry_price,
                 stop_loss |-> stop_loss,
                 take_profit |-> take_profit,
                 risk_reward_ratio |->
                     risk_reward_ratio_of(entry_price, stop_loss, take_profit),
                 confidence_score |-> analysis.confidence_score,
                 expected_duration |-> timeframe_duration_map(timeframe),
                 analysis_summary |-> analysis.summary,
                 technical_factors |-> analysis.technical_factors,
                 fundamental_factors |-> analysis.fundamental_factors,
                 has_sentiment_factors |-> FALSE,
                 sentiment_factors |-> <<>>,
                 economic_events |-> analysis.economic_factors,
                 ai_reasoning |-> analysis.reasoning]]

----------------------------------------------------------------------------
(* analyze_forex_pair (ai_engine.py:25-75): one request                    *)

Directions == {"BUY", "SELL", "NEUTRAL"}

\* confidences the source analyses of a request report, in hundredths
RequestConfidences == {50, 80}

\* analyze_technical_data: factor values are pandas scalars, which json.dumps
\* encodes when they are floats and rejects when they are numpy integers
TechnicalAnalyses ==
    {[Opinion(d, c, <<DictFactor("atr", 5000)>>) EXCEPT !.json_ok = ok] :
        d \in Directions, c \in RequestConfidences, ok \in BOOLEAN}

\* analyze_fundamental_data: the common Opinion shape
FundamentalAnalyses ==
    {Opinion(d, c, <<DictFactor("rates", 1)>>) :
        d \in Directions, c \in RequestConfidences}

\* analyze_sentiment_data returns format_sentiment_result's dict
SentimentAnalyses == {SentimentResult(d) : d \in {"bullish", "bearish", "neutral"}}

\* analyze_economic_events
EconomicAnalyses ==
    {Opinion(d, c, <<DictFactor("event", 1)>>) :
        d \in Directions, c \in RequestConfidences}

\* economic_calendar.py:112-119, the dict of the except branch
economic_error == Opinion("NEUTRAL", 0, <<DictFactor("error", 0)>>)

Timeframes == {"H1", "M5"}

\* technical_data["current_price"]; 0/0 is the degenerate quote
Prices == {[bid |-> 1099600, ask |-> 1100000], [bid |-> 0, ask |-> 0]}

NoBody == LlmAnalysis(FALSE, "", FALSE, 0, <<>>)

\* JSON objects the reasoning service may answer with
LlmBodies ==
    {LlmAnalysis(TRUE, d, TRUE, c, <<>>) :
        d \in Directions \cup {"HOLD"}, c \in {60, 65, 90}}
    \cup {LlmAnalysis(FALSE, "", TRUE, 90, <<>>),
          LlmAnalysis(TRUE, "BUY", FALSE, 0, <<>>)}
    \cup {LlmAnalysis(TRUE, d, TRUE, 90, tf) :
            d \in {"BUY", "SELL"},
            tf \in {<<DictFactor("atr", 5000)>>,
                    <<StrFactor("atr")>>,
                    <<DictFactor("atr", 5000), StrFactor("atr")>>,
                    <<DictFactor("atr", 0), StrFactor("atr")>>}}

Outcomes ==
    {Outcome("transport_error", NoBody), Outcome("non_json", NoBody)}
    \cup {Outcome("json", b) : b \in LlmBodies}

NotRaised == [exception |-> "none", by |-> ""]
NoOpinion == Opinion("", 0, <<>>)
NoAnalysis == analysis_from_response("", "", NoBody)
NoRequest == [currency_pair |-> "", timeframe |-> "",
              current_price |-> [bid |-> 0, ask |-> 0]]

InitFusion ==
    /\ stage = "start"
    /\ request = NoRequest
    /\ analyses = [technical |-> NoOpinion, fundamental |-> NoOpinion,
                   sentiment |-> NoOpinion, economic |-> NoOpinion]
    /\ response = Outcome("not_called", NoBody)
    /\ combined_analysis = NoAnalysis
    /\ signal = NoSignal
    /\ raised = NotRaised
    /\ atr = 0
    /\ failed = {}

\* what a source analysis hands back to analyze_forex_pair: the dict it
\* returned, or the exception that left it; failed says that the analysis did
\* not run to its end
SourceResult(has_failed, exception, value) ==
    [failed |-> has_failed, raised |-> exception, value |-> value]

\* technical.py:444-451, the dict of the except branch
technical_failure == Opinion("NEUTRAL", 0, <<DictFactor("error", 0)>>)

\* analyze_technical_data: technical_data["instrument"] is read at line 19,
\* before the try of line 21, so a technical_data without that key leaves
\* the function with KeyError
TechnicalResults ==
    {SourceResult(FALSE, "none", t) : t \in TechnicalAnalyses}
    \cup {SourceResult(TRUE, "none", technical_failure),
          SourceResult(TRUE, "KeyError", NoOpinion)}

\* analyze_fundamental_data: a failure degrades to the neutral Opinion
fundamental_failure == Opinion("NEUTRAL", 0, <<DictFactor("error", 0)>>)

FundamentalResults ==
    {SourceResult(FALSE, "none", f) : f \in FundamentalAnalyses}
    \cup {SourceResult(TRUE, "none", fundamental_failure)}

\* sentiment_integration.py:38-50, the dict of the except branch: direction
\* "neutral", the key "confidence", no "confidence_score", no "factors"
sentiment_failure == SentimentResult("neutral")

SentimentResults ==
    {SourceResult(FALSE, "none", s) : s \in SentimentAnalyses}
    \cup {SourceResult(TRUE, "none", sentiment_failure)}

\* economic_calendar.py:112-119 is the except branch
EconomicResults ==
    {SourceResult(FALSE, "none", e) : e \in EconomicAnalyses}
    \cup {SourceResult(TRUE, "none", economic_error)}

\* lines 44-48: the four source analyses of a request, awaited in turn
SourceAnalyses ==
    /\ stage = "start"
    /\ \E tf \in Timeframes, price \in Prices,
          t \in TechnicalResults, f \in FundamentalResults,
          s \in SentimentResults, e \in EconomicResults :
          /\ request' = [currency_pair |-> "EUR/USD", timeframe |-> tf,
                         current_price |-> price]
          /\ IF t.raised # "none"
               THEN /\ analyses' = analyses
                    /\ failed' = {"technical"}
                    /\ stage' = "returned"
                    /\ raised' = [exception |-> t.raised,
                                  by |-> "analyze_technical_data"]
               ELSE /\ analyses' = [technical |-> t.value,
                                    fundamental |-> f.value,
                                    sentiment |-> s.value,
                                    economic |-> e.value]
                    /\ failed' =
                           LET r == [technical |-> t, fundamental |-> f,
                                     sentiment |-> s, economic |-> e]
                           IN  {src \in DOMAIN r : r[src].failed}
                    /\ stage' = "analysed"
                    /\ raised' = raised
    /\ UNCHANGED <<response, combined_analysis, signal, atr>>
    /\ UNCHANGED reflection_vars
    /\ UNCHANGED unit_vars
    /\ UNCHANGED socket_vars

\* lines 50-58: await combine_analyses(...)
CombineAnalyses ==
    /\ stage = "analysed"
    /\ \E outcome \in Outcomes :
          LET r == combine_analyses(request.currency_pair, request.timeframe,
                                    analyses.technical, analyses.fundamental,
                                    analyses.sentiment, analyses.economic,
                                    outcome)
          IN  IF r.raised = "none"
              THEN /\ response' = outcome
                   /\ combined_analysis' = r.value
                   /\ stage' = "combined"
                   /\ raised' = raised
              ELSE /\ response' = response
                   /\ combined_analysis' = combined_analysis
                   /\ stage' = "returned"
                   /\ raised' = [exception |-> r.raised,
                                 by |-> "combine_analyses"]
    /\ UNCHANGED <<request, analyses, signal, atr, failed>>
    /\ UNCHANGED reflection_vars
    /\ UNCHANGED unit_vars
    /\ UNCHANGED socket_vars

\* lines 60-75: the gate, generate_trading_signal, the return
SignalStep ==
    /\ stage = "combined"
    /\ stage' = "returned"
    /\ IF ~combined_analysis.has_confidence_score
       THEN /\ raised' = [exception |-> "KeyError",
                          by |-> "analyze_forex_pair"]
            /\ UNCHANGED <<signal, atr>>
       ELSE IF FracGeq(combined_analysis.confidence_score,
                       Frac(MinConfidence, 1))
       THEN LET r == generate_trading_signal(request.currency_pair,
                                             request.timeframe,
                                             combined_analysis,
                                             request.current_price)
            IN  /\ raised' = IF r.raised = "none" THEN NotRaised
                              ELSE [exception |-> r.raised,
                                    by |-> "generate_trading_signal"]
                /\ signal' = r.value
                /\ atr' = r.atr
       ELSE /\ signal' = Suppressed("Confidence score below threshold")
            /\ UNCHANGED <<raised, atr>>
    /\ UNCHANGED <<request, analyses, response, combined_analysis, failed>>
    /\ UNCHANGED reflection_vars
    /\ UNCHANGED unit_vars
    /\ UNCHANGED socket_vars

----------------------------------------------------------------------------
(* The ai_performance_metrics table (supabase.py:426-478)                  *)

RECURSIVE FracSum(_, _)
\* the sum of f[k] over k in S
FracSum(f, S) ==
    IF S = {} THEN Frac(0, 1)
    ELSE LET k == CHOOSE x \in S : TRUE
         IN  FracAdd(f[k], FracSum(f, S \ {k}))

\* the bucket a reflection synthesizes when the table has none
\* (reflection.py:251-272); id 0 stands for "no id key"
new_performance(currency_pair, timeframe) ==
    [id |-> 0,
     currency_pair |-> currency_pair,
     timeframe |-> timeframe,
     total_signals |-> 0,
     accurate_signals |-> 0,
     accuracy_rate |-> Frac(0, 1),
     factor_weights |-> [k \in SourceSet |-> Frac(1, 4)],
     factor_accuracy |-> [k \in SourceSet |-> Frac(0, 1)],
     recent_signals |-> <<>>]

NoPerformance == new_performance("", "")

\* select * where currency_pair = .. and timeframe = ..
matching_rows(table, currency_pair, timeframe) ==
    SelectSeq(table, LAMBDA row : row.currency_pair = currency_pair
                                  /\ row.timeframe = timeframe)

\* Database.get_performance_metrics: <<response.data[0]>>, or <<>> for None
get_performance_metrics(table, currency_pair, timeframe) ==
    LET data == matching_rows(table, currency_pair, timeframe)
    IN  IF Len(data) > 0 THEN <<data[1]>> ELSE <<>>

\* update(metrics_data).eq("id", existing_id): the columns metrics_data names
\* are overwritten; the row keeps its id when metrics_data has none
update_row(table, existing_id, metrics_data) ==
    [i \in 1..Len(table) |->
        IF table[i].id = existing_id
        THEN [metrics_data EXCEPT !.id = IF metrics_data.id = 0
                                         THEN existing_id ELSE metrics_data.id]
        ELSE table[i]]

\* insert(metrics_data): a new row under a fresh primary key
insert_row(table, fresh_id, metrics_data) ==
    Append(table, [metrics_data EXCEPT !.id = fresh_id])

----------------------------------------------------------------------------
(* ReflectionEngine (reflection.py)                                        *)

\* reflection.py:64-69
was_accurate_of(direction, profit_loss_pips) ==
    \/ direction = "BUY" /\ profit_loss_pips > 0
    \/ direction = "SELL" /\ profit_loss_pips < 0

\* ai_engine.py:326-331: pips as the repository computes them, profit
\* positive for either direction (prices are in 0.000001, a pip is 0.0001)
profit_loss_pips_of(direction, entry_price, exit_price) ==
    IF direction = "BUY" THEN (exit_price - entry_price) \div 100
    ELSE (entry_price - exit_price) \div 100

\* ai_engine.py:326-331: was_successful
was_successful_of(direction, entry_price, exit_price) ==
    IF direction = "BUY" THEN exit_price >= entry_price
    ELSE exit_price <= entry_price

\* a factors_analysis: items maps a key to {impact, accuracy}; ok is FALSE
\* when a value is not a dict, so that analysis.get raises AttributeError
Report(ok, items) == [ok |-> ok, items |-> items]
Analysis(impact, accuracy) == [impact |-> impact, accuracy |-> accuracy]

\* reflection.py:220-229: the report when the reasoning call fails
fallback_factors_analysis ==
    Report(TRUE, [k \in SourceSet |-> Analysis(Frac(0, 1), Frac(0, 1))])

\* the recent_signals cap (reflection.py:307)
RecentLimit == 10

\* an accuracy that weighs the old value and the new sample alike
updated_accuracy_halved(current_accuracy, new_accuracy, total_signals) ==
    FracDiv(FracAdd(current_accuracy, new_accuracy), Frac(2, 1))

\* lines 285-290
updated_accuracy(current_accuracy, new_accuracy, total_signals) ==
    FracDiv(FracAdd(FracMul(current_accuracy, Frac(total_signals - 1, 1)),
                    new_accuracy),
            Frac(total_signals, 1))

\* lines 293-294: weight * 0.8 + impact * 0.2
blended_weight(weight, impact) ==
    FracAdd(FracMul(weight, Frac(8, 10)), FracMul(impact, Frac(2, 10)))

\* lines 283-294: the loop over factors_analysis.items()
factor_accuracy_after(performance, items, total_signals) ==
    [k \in DOMAIN performance.factor_accuracy \cup DOMAIN items |->
        IF k \in DOMAIN items
        THEN updated_accuracy(
                 IF k \in DOMAIN performance.factor_accuracy
                 THEN performance.factor_accuracy[k] ELSE Frac(0, 1),
                 items[k].accuracy, total_signals)
        ELSE performance.factor_accuracy[k]]

factor_weights_after(performance, items) ==
    [k \in DOMAIN performance.factor_weights \cup DOMAIN items |->
        IF k \in DOMAIN items
        THEN blended_weight(
                 IF k \in DOMAIN performance.factor_weights
                 THEN performance.factor_weights[k] ELSE Frac(1, 4),
                 items[k].impact)
        ELSE performance.factor_weights[k]]

\* lines 296-299: every key of factor_weights divided by their sum
normalized(factor_weights) ==
    LET total_weight == FracSum(factor_weights, DOMAIN factor_weights)
    IN  [k \in DOMAIN factor_weights |->
            FracDiv(factor_weights[k], total_weight)]

\* a cut that keeps the oldest entries
recent_signals_after_oldest(recent_signals, was_accurate) ==
    LET appended == Append(recent_signals, was_accurate)
    IN  IF Len(appended) > RecentLimit
        THEN SubSeq(appended, 1, RecentLimit)
        ELSE appended

\* lines 301-308
recent_signals_after(recent_signals, was_accurate) ==
    LET appended == Append(recent_signals, was_accurate)
    IN  IF Len(appended) > RecentLimit
        THEN SubSeq(appended, Len(appended) - RecentLimit + 1, Len(appended))
        ELSE appended

\* a variant of the counter update that counts every reflection as accurate
updated_performance_always_accurate(performance, was_accurate, items) ==
    LET total_signals == performance.total_signals + 1
        accurate_signals == performance.accurate_signals + 1
    IN  [performance EXCEPT
            !.total_signals = total_signals,
            !.accurate_signals = accurate_signals,
            !.accuracy_rate = Frac(accurate_signals, total_signals),
            !.factor_accuracy =
                factor_accuracy_after(performance, items, total_signals),
            !.factor_weights =
                normalized(factor_weights_after(performance, items)),
            !.recent_signals =
                recent_signals_after(performance.recent_signals, was_accurate)]

\* lines 274-308 on the bucket read or synthesized at lines 249-272
updated_performance(performance, was_accurate, items) ==
    LET total_signals == performance.total_signals + 1
        accurate_signals == IF was_accurate
                            THEN performance.accurate_signals + 1
                            ELSE performance.accurate_signals
    IN  [performance EXCEPT
            !.total_signals = total_signals,
            !.accurate_signals = accurate_signals,
            !.accuracy_rate = Frac(accurate_signals, total_signals),
            !.factor_accuracy =
                factor_accuracy_after(performance, items, total_signals),
            !.factor_weights =
                normalized(factor_weights_after(performance, items)),
            !.recent_signals =
                recent_signals_after(performance.recent_signals, was_accurate)]

----------------------------------------------------------------------------
(* Reflections in flight                                                   *)

\* the processes that serve reflect_on_signal_outcome against the one table
Workers == {"w1", "w2"}

\* reflections started in one behaviour
MaxReflections == 3

\* rows of the signals table
StoredSignals ==
    {[id |-> "s1", currency_pair |-> "EUR/USD", timeframe |-> "H1",
      direction |-> "BUY", entry_price |-> 1100000],
     [id |-> "s2", currency_pair |-> "EUR/USD", timeframe |-> "H1",
      direction |-> "SELL", entry_price |-> 1100000]}

SignalIds == {sig.id : sig \in StoredSignals} \cup {"unknown"}

BucketKeys == {<<sig.currency_pair, sig.timeframe>> : sig \in StoredSignals}

\* Database.get_signal_by_id: <<signal>>, or <<>> for None
get_signal_by_id(signal_id) ==
    IF \E sig \in StoredSignals : sig.id = signal_id
    THEN <<CHOOSE sig \in StoredSignals : sig.id = signal_id>>
    ELSE <<>>

\* price_at_close of an outcome, as a distance from the entry price
CloseOffsets == {-5000, 0, 5000}

\* factors_analysis objects the reasoning service may answer with
LlmReports ==
    {Report(TRUE, [k \in SourceSet |->
                     IF k = "technical" THEN Analysis(Frac(1, 1), Frac(1, 1))
                     ELSE IF k = "fundamental"
                     THEN Analysis(Frac(1, 2), Frac(0, 1))
                     ELSE Analysis(Frac(0, 1), Frac(1, 2))]),
     Report(TRUE, [k \in {"technical"} |-> Analysis(Frac(1, 1), Frac(1, 1))]),
     Report(TRUE, [k \in {"technical", "price_action"} |->
                     Analysis(Frac(1, 2), Frac(1, 1))]),
     Report(FALSE, [k \in {"technical"} |-> Analysis(Frac(0, 1), Frac(0, 1))])}

NoReport == Report(TRUE, [k \in {} |-> Analysis(Frac(0, 1), Frac(0, 1))])

\* what the reflection reasoning call did: answered with a JSON report,
\* failed in transport, or answered with a body json.loads rejects
ReflectionOutcomes ==
    {[kind |-> "json", report |-> r] : r \in LlmReports}
    \cup {[kind |-> k, report |-> NoReport] :
             k \in {"transport_error", "non_json"}}

\* a fallback report whose per-source values are not dicts
fallback_reflection_malformed ==
    [reflection |-> "Error generating reflection",
     factors_analysis |->
         Report(FALSE, [k \in SourceSet |-> Analysis(Frac(0, 1), Frac(0, 1))]),
     lessons_learned |-> 1]

\* reflection.py:218-229: the report of the except branch
fallback_reflection ==
    [reflection |-> "Error generating reflection",
     factors_analysis |-> fallback_factors_analysis,
     lessons_learned |-> 1]

\* reflection.py:128-229: [reflection, factors_analysis, number of lessons]
generate_ai_reflection(outcome) ==
    IF outcome.kind = "json"
    THEN [reflection |-> "llm", factors_analysis |-> outcome.report,
          lessons_learned |-> 3]
    ELSE fallback_reflection

IdleWorker ==
    [pc |-> "idle", signal_id |-> "", price_at_close |-> 0,
     profit_loss_pips |-> 0, was_accurate |-> FALSE,
     call |-> "none", reflection |-> "", lessons_learned |-> 0,
     factors_analysis |-> NoReport, performance |-> NoPerformance,
     existing |-> 0]

\* the bucket of another pair, left by one earlier reflection
OtherBucket ==
    [updated_performance(new_performance("GBP/USD", "H4"), TRUE,
                         fallback_factors_analysis.items) EXCEPT !.id = 1]

InitReflection ==
    /\ metrics_table = <<OtherBucket>>
    /\ next_id = 2
    /\ workers = [w \in Workers |-> IdleWorker]
    /\ started = 0
    /\ completed = [key \in BucketKeys |->
                        [calls |-> 0, accurate |-> 0, history |-> <<>>]]

signal_of(w) == get_signal_by_id(workers[w].signal_id)[1]

\* reflection.py:45-69: the signal is fetched and was_accurate decided
StartReflection(w) ==
    /\ workers[w].pc = "idle"
    /\ started < MaxReflections
    /\ started' = started + 1
    /\ \E signal_id \in SignalIds, offset \in CloseOffsets :
          LET found == get_signal_by_id(signal_id)
          IN  IF found = <<>>
              THEN workers' = workers
              ELSE LET sig == found[1]
                       price_at_close == sig.entry_price + offset
                       profit_loss_pips ==
                           profit_loss_pips_of(sig.direction, sig.entry_price,
                                               price_at_close)
                   IN  workers' = [workers EXCEPT ![w] =
                           [IdleWorker EXCEPT
                               !.pc = "reflecting",
                               !.signal_id = signal_id,
                               !.price_at_close = price_at_close,
                               !.profit_loss_pips = profit_loss_pips,
                               !.was_accurate =
                                   was_accurate_of(sig.direction,
                                                   profit_loss_pips)]]
    /\ UNCHANGED <<metrics_table, next_id, completed>>
    /\ UNCHANGED fusion_vars
    /\ UNCHANGED unit_vars
    /\ UNCHANGED socket_vars

\* reflection.py:71-98 and 112-229: the reasoning call and its fallback
GenerateReflection(w) ==
    /\ workers[w].pc = "reflecting"
    /\ \E outcome \in ReflectionOutcomes :
          LET reflection == generate_ai_reflection(outcome)
          IN  workers' = [workers EXCEPT ![w] =
                  [@ EXCEPT !.pc = "updating",
                            !.call = outcome.kind,
                            !.reflection = reflection.reflection,
                            !.lessons_learned = reflection.lessons_learned,
                            !.factors_analysis =
                                reflection.factors_analysis]]
    /\ UNCHANGED <<metrics_table, next_id, started, completed>>
    /\ UNCHANGED fusion_vars
    /\ UNCHANGED unit_vars
    /\ UNCHANGED socket_vars

\* reflection.py:247-308: the bucket is read (or synthesized) and updated in
\* memory; an exception is logged and the call returns without saving
ReadMetrics(w) ==
    /\ workers[w].pc = "updating"
    /\ LET sig == signal_of(w)
           found == get_performance_metrics(metrics_table, sig.currency_pair,
                                            sig.timeframe)
           performance == IF found = <<>>
                          THEN new_performance(sig.currency_pair, sig.timeframe)
                          ELSE found[1]
       IN  IF workers[w].factors_analysis.ok
           THEN workers' = [workers EXCEPT ![w] =
                   [@ EXCEPT !.pc = "saving",
                             !.performance =
                                 updated_performance(performance,
                                     workers[w].was_accurate,
                                     workers[w].factors_analysis.items)]]
           ELSE workers' = [workers EXCEPT ![w] = IdleWorker]
    /\ UNCHANGED <<metrics_table, next_id, started, completed>>
    /\ UNCHANGED fusion_vars
    /\ UNCHANGED unit_vars
    /\ UNCHANGED socket_vars

\* supabase.py:460-463: save_performance_metrics looks the bucket up
SaveLookup(w) ==
    /\ workers[w].pc = "saving"
    /\ LET metrics_data == workers[w].performance
           found == get_performance_metrics(metrics_table,
                                            metrics_data.currency_pair,
                                            metrics_data.timeframe)
       IN  workers' = [workers EXCEPT ![w] =
               [@ EXCEPT !.pc = "writing",
                         !.existing = IF found = <<>> THEN 0 ELSE found[1].id]]
    /\ UNCHANGED <<metrics_table, next_id, started, completed>>
    /\ UNCHANGED fusion_vars
    /\ UNCHANGED unit_vars
    /\ UNCHANGED socket_vars

\* supabase.py:465-470: update the row found, or insert a new one
SaveWrite(w) ==
    /\ workers[w].pc = "writing"
    /\ LET metrics_data == workers[w].performance
           key == <<metrics_data.currency_pair, metrics_data.timeframe>>
       IN  /\ IF workers[w].existing # 0
              THEN /\ metrics_table' = update_row(metrics_table,
                                                  workers[w].existing,
                                                  metrics_data)
                   /\ next_id' = next_id
              ELSE /\ metrics_table' = insert_row(metrics_table, next_id,
                                                  metrics_data)
                   /\ next_id' = next_id + 1
           /\ completed' = [completed EXCEPT ![key] =
                  [calls |-> @.calls + 1,
                   accurate |-> @.accurate
                                + IF workers[w].was_accurate THEN 1 ELSE 0,
                   history |->
                       Append(@.history,
                              [signal_id |-> workers[w].signal_id,
                               was_accurate |-> workers[w].was_accurate,
                               items |-> workers[w].factors_analysis.items])]]
    /\ workers' = [workers EXCEPT ![w] = IdleWorker]
    /\ UNCHANGED started
    /\ UNCHANGED fusion_vars
    /\ UNCHANGED unit_vars
    /\ UNCHANGED socket_vars

AllIdle == \A w \in Workers : workers[w].pc = "idle"

----------------------------------------------------------------------------
(* ConnectionManager (websockets/manager.py) and the /ws endpoint          *)
(* (api/routes/websocket.py)                                               *)
(*                                                                         *)
(* A Python dict is a sequence of entries [key, value] in insertion order, *)
(* the order its items() iterate in.                                       *)

WebSockets == {"ws1", "ws2"}
UserIds == {"u1", "u2"}
MarketPairs == {"EUR/USD", "GBP/USD"}

\* send_price_updates tasks alive at once for one websocket and pair
MaxTasks == 2

Entry(key, value) == [key |-> key, value |-> value]
Keys(dict) == {dict[i].key : i \in 1..Len(dict)}
IndexOf(dict, key) == CHOOSE i \in 1..Len(dict) : dict[i].key = key
\* dict[key]
Get(dict, key) == dict[IndexOf(dict, key)].value
\* dict[key] = value: in place for a key the dict has, at the end otherwise
Put(dict, key, value) ==
    IF key \in Keys(dict)
    THEN [dict EXCEPT ![IndexOf(dict, key)] = Entry(key, value)]
    ELSE Append(dict, Entry(key, value))
\* del dict[key]
Del(dict, key) == SelectSeq(dict, LAMBDA e : e.key # key)

\* list.remove(x): the first occurrence goes
ListRemove(list, x) ==
    LET i == CHOOSE k \in 1..Len(list) :
                 list[k] = x /\ \A j \in 1..(k - 1) : list[j] # x
    IN  SubSeq(list, 1, i - 1) \o SubSeq(list, i + 1, Len(list))

InList(list, x) == \E i \in 1..Len(list) : list[i] = x

\* manager.py:28-38
NoConnections ==
    [active_connections |-> <<>>, user_connections |-> <<>>,
     market_subscribers |-> <<>>, signal_subscribers |-> <<>>,
     news_subscribers |-> {}]

\* manager.py:40-59; the welcome message goes to a websocket just accepted
connect(m, websocket, user_id) ==
    [m EXCEPT
        !.active_connections = Append(@, websocket),
        !.user_connections =
            Put(@, user_id,
                Append(IF user_id \in Keys(@) THEN Get(@, user_id) ELSE <<>>,
                       websocket)),
        !.signal_subscribers =
            Put(@, user_id,
                (IF user_id \in Keys(@) THEN Get(@, user_id) ELSE {})
                \cup {websocket})]

\* manager.py:84-89: the loop over user_connections.items() leaves at the
\* first list that holds the websocket, with break
user_connections_without(dict, websocket) ==
    LET holding == {i \in 1..Len(dict) : InList(dict[i].value, websocket)}
    IN  IF holding = {} THEN dict
        ELSE LET i == CHOOSE k \in holding : \A j \in holding : k <= j
                 connections == ListRemove(dict[i].value, websocket)
             IN  IF connections = <<>> THEN Del(dict, dict[i].key)
                 ELSE [dict EXCEPT ![i] = Entry(dict[i].key, connections)]

\* manager.py:92-103, each of the two loops: for key, connections in
\* dict.items(), with del dict[key] inside and no break.  The dict iterator
\* raises RuntimeError (dictionary changed size during iteration) when it is
\* asked for the next item after a del, also after the last item: the
\* entries before the deleted one are done, the ones behind it are not
subscribers_without(dict, websocket) ==
    LET alone == {i \in 1..Len(dict) : dict[i].value = {websocket}}
    IN  IF alone = {}
        THEN Returned([i \in 1..Len(dict) |->
                          Entry(dict[i].key, dict[i].value \ {websocket})])
        ELSE LET i == CHOOSE k \in alone : \A j \in alone : k <= j
                 before == [j \in 1..(i - 1) |->
                               Entry(dict[j].key,
                                     dict[j].value \ {websocket})]
             IN  Raised("RuntimeError",
                        before \o SubSeq(dict, i + 1, Len(dict)))

\* manager.py:72-107: [raised, value (the manager after the call)]
disconnect(m, websocket) ==
    LET m1 == [m EXCEPT
                  !.active_connections =
                      IF InList(@, websocket) THEN ListRemove(@, websocket)
                      ELSE @,
                  !.user_connections =
                      user_connections_without(@, websocket)]
        market == subscribers_without(m1.market_subscribers, websocket)
        m2 == [m1 EXCEPT !.market_subscribers = market.value]
        signals == subscribers_without(m2.signal_subscribers, websocket)
        m3 == [m2 EXCEPT !.signal_subscribers = signals.value]
    IN  IF market.raised # "none" THEN Raised(market.raised, m2)
        ELSE IF signals.raised # "none" THEN Raised(signals.raised, m3)
        ELSE Returned([m3 EXCEPT !.news_subscribers = @ \ {websocket}])

\* manager.py:252-263; the confirmation is sent afterwards
subscribe_to_market(m, websocket, currency_pair) ==
    [m EXCEPT !.market_subscribers =
        Put(@, currency_pair,
            (IF currency_pair \in Keys(@) THEN Get(@, currency_pair) ELSE {})
            \cup {websocket})]

\* manager.py:276-283
subscribe_to_news(m, websocket) ==
    [m EXCEPT !.news_subscribers = @ \cup {websocket}]

\* manager.py:295-308
unsubscribe_from_market(m, websocket, currency_pair) ==
    IF currency_pair \in Keys(m.market_subscribers)
       /\ websocket \in Get(m.market_subscribers, currency_pair)
    THEN LET rest == Get(m.market_subscribers, currency_pair) \ {websocket}
         IN  [m EXCEPT !.market_subscribers =
                 IF rest = {} THEN Del(@, currency_pair)
                 ELSE Put(@, currency_pair, rest)]
    ELSE m

\* manager.py:320-328
unsubscribe_from_news(m, websocket) ==
    [m EXCEPT !.news_subscribers = @ \ {websocket}]

\* websocket.py:107-111: the subscription check of send_price_updates
subscribed(m, websocket, currency_pair) ==
    \E i \in 1..Len(m.market_subscribers) :
        /\ m.market_subscribers[i].key = currency_pair
        /\ websocket \in m.market_subscribers[i].value

\* a websocket is "new" before the endpoint has connected it, "open" while
\* the endpoint serves its messages, "gone" once the client has dropped the
\* connection (sends fail, the endpoint's next receive raises
\* WebSocketDisconnect), "closed" once the endpoint has handled that
InitSockets ==
    /\ manager = NoConnections
    /\ sockets = [ws \in WebSockets |-> [status |-> "new", user_id |-> ""]]
    /\ price_tasks = [t \in WebSockets \X MarketPairs |-> 0]
    /\ disconnects = [ws \in WebSockets |-> "none"]

\* websocket.py:27-53: the endpoint authenticates and connects the websocket
Connect(ws) ==
    /\ sockets[ws].status = "new"
    /\ \E user_id \in UserIds :
          /\ manager' = connect(manager, ws, user_id)
          /\ sockets' = [sockets EXCEPT ![ws] =
                            [status |-> "open", user_id |-> user_id]]
    /\ UNCHANGED <<price_tasks, disconnects>>
    /\ UNCHANGED fusion_vars
    /\ UNCHANGED reflection_vars
    /\ UNCHANGED unit_vars

\* websocket.py:61-70: a subscribe message on the market topic; every such
\* message creates a send_price_updates task
SubscribeMarket(ws) ==
    /\ sockets[ws].status = "open"
    /\ \E currency_pair \in MarketPairs :
          /\ price_tasks[<<ws, currency_pair>>] < MaxTasks
          /\ manager' = subscribe_to_market(manager, ws, currency_pair)
          /\ price_tasks' = [price_tasks EXCEPT ![<<ws, currency_pair>>] = @ + 1]
    /\ UNCHANGED <<sockets, disconnects>>
    /\ UNCHANGED fusion_vars
    /\ UNCHANGED reflection_vars
    /\ UNCHANGED unit_vars

\* websocket.py:71-72
SubscribeNews(ws) ==
    /\ sockets[ws].status = "open"
    /\ manager' = subscribe_to_news(manager, ws)
    /\ UNCHANGED <<sockets, price_tasks, disconnects>>
    /\ UNCHANGED fusion_vars
    /\ UNCHANGED reflection_vars
    /\ UNCHANGED unit_vars

\* websocket.py:75-81
UnsubscribeMarket(ws) ==
    /\ sockets[ws].status = "open"
    /\ \E currency_pair \in MarketPairs :
          manager' = unsubscribe_from_market(manager, ws, currency_pair)
    /\ UNCHANGED <<sockets, price_tasks, disconnects>>
    /\ UNCHANGED fusion_vars
    /\ UNCHANGED reflection_vars
    /\ UNCHANGED unit_vars

\* websocket.py:82-83
UnsubscribeNews(ws) ==
    /\ sockets[ws].status = "open"
    /\ manager' = unsubscribe_from_news(manager, ws)
    /\ UNCHANGED <<sockets, price_tasks, disconnects>>
    /\ UNCHANGED fusion_vars
    /\ UNCHANGED reflection_vars
    /\ UNCHANGED unit_vars

\* the client drops the connection
ClientDrops(ws) ==
    /\ sockets[ws].status = "open"
    /\ sockets' = [sockets EXCEPT ![ws].status = "gone"]
    /\ UNCHANGED <<manager, price_tasks, disconnects>>
    /\ UNCHANGED fusion_vars
    /\ UNCHANGED reflection_vars
    /\ UNCHANGED unit_vars

\* what a disconnect call leaves behind
Disconnected(ws) ==
    LET r == disconnect(manager, ws)
    IN  /\ manager' = r.value
        /\ disconnects' = [disconnects EXCEPT ![ws] =
                              IF r.raised = "none" THEN "returned"
                              ELSE r.raised]

\* websocket.py:84-85: receive_json raises WebSocketDisconnect and the
\* endpoint disconnects the websocket; the handler is over either way
EndpointDisconnect(ws) ==
    /\ sockets[ws].status = "gone"
    /\ sockets' = [sockets EXCEPT ![ws].status = "closed"]
    /\ Disconnected(ws)
    /\ UNCHANGED price_tasks
    /\ UNCHANGED fusion_vars
    /\ UNCHANGED reflection_vars
    /\ UNCHANGED unit_vars

\* websocket.py:104-134, one round of a send_price_updates task: it ends
\* when the websocket is not subscribed to the pair; else it sends a price,
\* and a send that fails makes send_personal_message disconnect the
\* websocket (manager.py:119-121), whose exception the task logs at line 131
SendPriceUpdates(ws, currency_pair) ==
    /\ price_tasks[<<ws, currency_pair>>] > 0
    /\ IF ~subscribed(manager, ws, currency_pair)
       THEN /\ price_tasks' = [price_tasks EXCEPT ![<<ws, currency_pair>>] = @ - 1]
            /\ UNCHANGED <<manager, disconnects>>
       ELSE IF sockets[ws].status = "open"
       THEN UNCHANGED <<manager, price_tasks, disconnects>>
       ELSE /\ Disconnected(ws)
            /\ UNCHANGED price_tasks
    /\ UNCHANGED sockets
    /\ UNCHANGED fusion_vars
    /\ UNCHANGED reflection_vars
    /\ UNCHANGED unit_vars

NextSockets ==
    \E ws \in WebSockets :
        \/ Connect(ws)
        \/ SubscribeMarket(ws)
        \/ SubscribeNews(ws)
        \/ UnsubscribeMarket(ws)
        \/ UnsubscribeNews(ws)
        \/ ClientDrops(ws)
        \/ EndpointDisconnect(ws)
        \/ \E currency_pair \in MarketPairs :
               SendPriceUpdates(ws, currency_pair)

----------------------------------------------------------------------------
(* analyze_technical_data (technical.py:11-451)                            *)
(*                                                                         *)
(* The indicator frame is modelled by what the scorer asks of it: which    *)
(* columns it has and how the last values compare.  Votes are counted in   *)
(* half votes (the RSI casts 0.5), so 2 is one vote.                       *)

\* the fewest periods the scorer accepts (technical.py:27)
MinPeriods == 50

\* what one indicator group adds to buy_signals, sell_signals and
\* total_signals, and the names of the factors it appends
Votes(buy, sell, total, factors) ==
    [buy |-> buy, sell |-> sell, total |-> total, factors |-> factors]

Vote2(cond, n) == IF cond THEN n ELSE 0
Name(cond, name) == IF cond THEN <<name>> ELSE <<>>

\* lines 45-125: a missing close or SMA column raises at 48-51, before any
\* vote; a missing EMA column raises at 103-106, after the SMA votes
trend_analysis(t) ==
    LET buy == Vote2(t.sma_20 = "above", 2) + Vote2(t.sma_50 = "above", 2)
               + Vote2(t.sma_200 = "above", 4)
        sell == Vote2(t.sma_20 = "below", 2) + Vote2(t.sma_50 = "below", 2)
                + Vote2(t.sma_200 = "below", 4)
        factors == Name(t.sma_20 = "above", "price_above_sma_20")
                   \o Name(t.sma_20 = "below", "price_below_sma_20")
                   \o Name(t.sma_50 = "above", "price_above_sma_50")
                   \o Name(t.sma_50 = "below", "price_below_sma_50")
                   \o Name(t.sma_200 = "above", "price_above_sma_200")
                   \o Name(t.sma_200 = "below", "price_below_sma_200")
    IN  IF ~t.has_sma THEN Votes(0, 0, 0, <<>>)
        ELSE IF ~t.has_ema THEN Votes(buy, sell, 0, factors)
        ELSE Votes(buy + Vote2(t.ema = "bullish", 4),
                   sell + Vote2(t.ema = "bearish", 4),
                   14,
                   factors
                   \o Name(t.ema = "bullish", "ema_12_26_bullish_crossover")
                   \o Name(t.ema = "bearish", "ema_12_26_bearish_crossover"))

\* lines 127-236: the MACD and stochastic columns are optional; a missing
\* rsi_14 column raises at 167, after the MACD votes
momentum_analysis(m) ==
    LET macd_buy == Vote2(m.has_macd /\ m.macd_cross = "bullish", 4)
                    + Vote2(m.has_macd /\ m.macd_sign = "positive", 2)
        macd_sell == Vote2(m.has_macd /\ m.macd_cross = "bearish", 4)
                     + Vote2(m.has_macd /\ m.macd_sign = "negative", 2)
        macd_factors ==
            Name(m.has_macd /\ m.macd_cross = "bullish", "macd_bullish_crossover")
            \o Name(m.has_macd /\ m.macd_cross = "bearish",
                    "macd_bearish_crossover")
            \o Name(m.has_macd /\ m.macd_sign = "positive", "macd_positive")
            \o Name(m.has_macd /\ m.macd_sign = "negative", "macd_negative")
        rsi_buy == Vote2(m.rsi = "oversold", 2) + Vote2(m.rsi = "bullish", 1)
        rsi_sell == Vote2(m.rsi = "overbought", 2) + Vote2(m.rsi = "bearish", 1)
        rsi_factors == Name(m.rsi = "overbought", "rsi_overbought")
                       \o Name(m.rsi = "oversold", "rsi_oversold")
                       \o Name(m.rsi = "bullish", "rsi_bullish")
                       \o Name(m.rsi = "bearish", "rsi_bearish")
        stoch_buy == Vote2(m.has_stoch /\ m.stoch_cross = "bullish", 2)
                     + Vote2(m.has_stoch /\ m.stoch_zone = "oversold", 2)
        stoch_sell == Vote2(m.has_stoch /\ m.stoch_cross = "bearish", 2)
                      + Vote2(m.has_stoch /\ m.stoch_zone = "overbought", 2)
        stoch_factors ==
            Name(m.has_stoch /\ m.stoch_cross = "bullish",
                 "stoch_bullish_crossover")
            \o Name(m.has_stoch /\ m.stoch_cross = "bearish",
                    "stoch_bearish_crossover")
            \o Name(m.has_stoch /\ m.stoch_zone = "overbought",
                    "stoch_overbought")
            \o Name(m.has_stoch /\ m.stoch_zone = "oversold", "stoch_oversold")
    IN  IF ~m.has_rsi THEN Votes(macd_buy, macd_sell, 0, macd_factors)
        ELSE Votes(macd_buy + rsi_buy + stoch_buy,
                   macd_sell + rsi_sell + stoch_sell,
                   16,
                   macd_factors \o rsi_factors \o stoch_factors)

\* lines 238-311: the Bollinger columns are optional; a missing high, low or
\* close column raises at 271-273, after the Bollinger vote; the ATR casts
\* no vote
volatility_analysis(v, has_hlc) ==
    LET buy == Vote2(v.has_bb /\ v.bb = "below_lower", 2)
        sell == Vote2(v.has_bb /\ v.bb = "above_upper", 2)
        factors == Name(v.has_bb, "bollinger_band_width")
                   \o Name(v.has_bb /\ v.bb = "below_lower",
                           "price_below_lower_bb")
                   \o Name(v.has_bb /\ v.bb = "above_upper",
                           "price_above_upper_bb")
    IN  IF ~has_hlc THEN Votes(buy, sell, 0, factors)
        ELSE Votes(buy, sell, 6,
                   factors
                   \o Name(v.atr # "zero", "atr")
                   \o Name(v.atr = "high", "high_volatility")
                   \o Name(v.atr = "low", "low_volatility"))

\* lines 313-406: a missing high or low column raises at 322, before any vote
support_resistance_analysis(l, has_hlc) ==
    LET both == l.resistance # "none" /\ l.support # "none"
    IN  IF ~has_hlc THEN Votes(0, 0, 0, <<>>)
        ELSE Votes(Vote2(l.support = "near", 2)
                   + Vote2(both /\ l.rr = "favorable", 2),
                   Vote2(l.resistance = "near", 2)
                   + Vote2(both /\ l.rr = "unfavorable", 2),
                   6,
                   Name(l.resistance # "none", "nearest_resistance")
                   \o Name(l.resistance = "near", "close_to_resistance")
                   \o Name(l.support # "none", "nearest_support")
                   \o Name(l.support = "near", "close_to_support")
                   \o Name(both, "risk_reward_ratio")
                   \o Name(both /\ l.rr = "favorable", "favorable_risk_reward_long")
                   \o Name(both /\ l.rr = "unfavorable",
                           "unfavorable_risk_reward_long"))

\* the Opinion of the scorer; confidence_score in hundredths; the last five
\* fields are the value of the signal_summary factor
TechnicalOpinion(direction, confidence_score, factors, error) ==
    [direction |-> direction, confidence_score |-> confidence_score,
     factors |-> factors, error |-> error,
     buy_signals |-> 0, sell_signals |-> 0, total_signals |-> 0,
     buy_score |-> Frac(0, 1), sell_score |-> Frac(0, 1)]

\* lines 28-33
insufficient_data == TechnicalOpinion("NEUTRAL", Frac(0, 1),
                                      <<"insufficient_data">>, TRUE)

\* lines 444-451
technical_error == TechnicalOpinion("NEUTRAL", Frac(0, 1), <<"error">>, TRUE)

\* lines 409-410
score_of(signals, total_signals) ==
    IF total_signals > 0 THEN Frac(signals, total_signals) ELSE Frac(0, 1)

FracSub(a, b) == Frac(a.n * b.d - b.n * a.d, a.d * b.d)
FracMin(a, b) == IF FracLt(b, a) THEN b ELSE a

\* a confidence that is not capped at 1.0
scored_confidence_uncapped(buy_score, sell_score) ==
    IF FracLt(sell_score, buy_score)
    THEN FracAdd(Frac(50, 1), FracMul(FracSub(buy_score, sell_score),
                                      Frac(200, 1)))
    ELSE IF FracLt(buy_score, sell_score)
    THEN FracAdd(Frac(50, 1), FracMul(FracSub(sell_score, buy_score),
                                      Frac(200, 1)))
    ELSE Frac(50, 1)

\* lines 414-423: confidence_score, in hundredths
scored_confidence(buy_score, sell_score) ==
    IF FracLt(sell_score, buy_score)
    THEN FracAdd(Frac(50, 1),
                 FracMin(Frac(50, 1),
                         FracMul(FracSub(buy_score, sell_score), Frac(200, 1))))
    ELSE IF FracLt(buy_score, sell_score)
    THEN FracAdd(Frac(50, 1),
                 FracMin(Frac(50, 1),
                         FracMul(FracSub(sell_score, buy_score), Frac(200, 1))))
    ELSE Frac(50, 1)

\* a direction that goes to SELL on a tie
scored_direction_tie_sells(buy_score, sell_score) ==
    IF FracLt(sell_score, buy_score) THEN "BUY" ELSE "SELL"

\* lines 414-423: direction
scored_direction(buy_score, sell_score) ==
    IF FracLt(sell_score, buy_score) THEN "BUY"
    ELSE IF FracLt(buy_score, sell_score) THEN "SELL"
    ELSE "NEUTRAL"

\* lines 35-442: the four indicator groups, then the scores
scored(data) ==
    LET trend == trend_analysis(data.trend)
        momentum == momentum_analysis(data.momentum)
        volatility == volatility_analysis(data.volatility, data.has_hlc)
        levels == support_resistance_analysis(data.levels, data.has_hlc)
        buy_signals == trend.buy + momentum.buy + volatility.buy + levels.buy
        sell_signals == trend.sell + momentum.sell + volatility.sell
                        + levels.sell
        total_signals == trend.total + momentum.total + volatility.total
                         + levels.total
        buy_score == score_of(buy_signals, total_signals)
        sell_score == score_of(sell_signals, total_signals)
    IN  [direction |-> scored_direction(buy_score, sell_score),
         confidence_score |-> scored_confidence(buy_score, sell_score),
         factors |-> trend.factors \o momentum.factors \o volatility.factors
                     \o levels.factors \o <<"signal_summary">>,
         error |-> FALSE,
         buy_signals |-> buy_signals, sell_signals |-> sell_signals,
         total_signals |-> total_signals,
         buy_score |-> buy_score, sell_score |-> sell_score]

\* an insufficient-data Opinion that keeps the neutral confidence 0.5
analyze_technical_data_neutral_half(data) ==
    IF ~data.has_instrument THEN Raised("KeyError", technical_error)
    ELSE IF ~data.tabular THEN Returned(technical_error)
    ELSE IF data.periods < MinPeriods
    THEN Returned([insufficient_data EXCEPT !.confidence_score = Frac(50, 1),
                                            !.factors = <<>>])
    ELSE Returned(scored(data))

\* line 19 formats technical_data['instrument'] before the try; line 24
\* builds the frame inside it
analyze_technical_data(data) ==
    IF ~data.has_instrument THEN Raised("KeyError", technical_error)
    ELSE IF ~data.tabular THEN Returned(technical_error)
    ELSE IF data.periods < MinPeriods THEN Returned(insufficient_data)
    ELSE Returned(scored(data))

\* indicator frames handed to the scorer
TrendInputs ==
    {[has_sma |-> hs, has_ema |-> he, sma_20 |-> a, sma_50 |-> a,
      sma_200 |-> b, ema |-> e] :
        hs \in BOOLEAN, he \in BOOLEAN, a \in {"above", "below"},
        b \in {"above", "equal"}, e \in {"bullish", "none"}}

MomentumInputs ==
    {[has_macd |-> TRUE, macd_cross |-> c, macd_sign |-> "negative",
      has_rsi |-> hr, rsi |-> r, has_stoch |-> FALSE, stoch_cross |-> "none",
      stoch_zone |-> "none"] :
        c \in {"bearish", "none"}, hr \in BOOLEAN, r \in {"oversold", "fifty"}}

VolatilityInputs ==
    {[has_bb |-> hb, bb |-> "above_upper", atr |-> "normal"] : hb \in BOOLEAN}

LevelInputs ==
    {[resistance |-> r, support |-> "near", rr |-> q] :
        r \in {"none", "far"}, q \in {"favorable", "unfavorable"}}

Periods == {40, 49, 50}

TechnicalInputs ==
    [has_instrument : BOOLEAN, tabular : BOOLEAN, periods : Periods,
     has_hlc : BOOLEAN, trend : TrendInputs, momentum : MomentumInputs,
     volatility : VolatilityInputs, levels : LevelInputs]

NoTechnicalData ==
    [has_instrument |-> FALSE, tabular |-> FALSE, periods |-> 0,
     has_hlc |-> FALSE,
     trend |-> [has_sma |-> FALSE, has_ema |-> FALSE, sma_20 |-> "equal",
                sma_50 |-> "equal", sma_200 |-> "equal", ema |-> "none"],
     momentum |-> [has_macd |-> FALSE, macd_cross |-> "none",
                   macd_sign |-> "zero", has_rsi |-> FALSE, rsi |-> "fifty",
                   has_stoch |-> FALSE, stoch_cross |-> "none",
                   stoch_zone |-> "none"],
     volatility |-> [has_bb |-> FALSE, bb |-> "inside", atr |-> "zero"],
     levels |-> [resistance |-> "none", support |-> "none", rr |-> "none"]]

\* a call of the scorer: not made, made, or over with what it returned or raised
NoTechnicalCall ==
    [stage |-> "idle", raised |-> "none", value |-> technical_error]

\* the pair of an analyze_economic_events call, and what it derived
NoCurrencies ==
    [stage |-> "idle", raised |-> "none", base |-> <<>>, quote |-> <<>>,
     value |-> Opinion("NEUTRAL", 0, <<>>)]

InitUnits ==
    /\ technical_data = NoTechnicalData
    /\ technical_analysis = NoTechnicalCall
    /\ pair = <<>>
    /\ events = {}
    /\ currencies = NoCurrencies
    /\ InitSockets

InitTechnical ==
    /\ InitFusion
    /\ InitReflection
    /\ technical_data \in TechnicalInputs
    /\ technical_analysis = [NoTechnicalCall EXCEPT !.stage = "called"]
    /\ pair = <<>>
    /\ events = {}
    /\ currencies = NoCurrencies
    /\ InitSockets

\* one analyze_technical_data call
AnalyzeTechnicalData ==
    /\ technical_analysis.stage = "called"
    /\ LET r == analyze_technical_data(technical_data)
       IN  technical_analysis' =
               [stage |-> "done", raised |-> r.raised, value |-> r.value]
    /\ UNCHANGED <<technical_data, pair, events, currencies>>
    /\ UNCHANGED socket_vars
    /\ UNCHANGED fusion_vars
    /\ UNCHANGED reflection_vars

----------------------------------------------------------------------------
(* analyze_economic_events (economic_calendar.py:43-120)                   *)

\* a currency_pair is a string: a sequence of characters
MaxPairLen == 7
Letters == {"A"}
PairChars == Letters \cup {"/", "-"}
PairStrings == UNION {[1..n -> PairChars] : n \in 0..MaxPairLen}

\* s.split('/'): the pieces between the slashes, one more than the slashes
RECURSIVE split(_)
split(s) ==
    IF \A i \in 1..Len(s) : s[i] # "/" THEN <<s>>
    ELSE LET i == CHOOSE k \in 1..Len(s) :
                      s[k] = "/" /\ \A j \in 1..(k - 1) : s[j] # "/"
         IN  <<SubSeq(s, 1, i - 1)>> \o split(SubSeq(s, i + 1, Len(s)))

\* the slices s[:n] and s[n:] of a string
SliceTo(s, n) == SubSeq(s, 1, IF Len(s) < n THEN Len(s) ELSE n)
SliceFrom(s, n) == SubSeq(s, n + 1, Len(s))

\* lines 54-59: the two pieces around the slash, or else the first three
\* characters and the rest
pair_currencies(currency_pair) ==
    LET pieces == split(currency_pair)
        cs == IF Len(pieces) # 2
                THEN <<SliceTo(currency_pair, 3), SliceFrom(currency_pair, 3)>>
                ELSE pieces
    IN  [base_currency |-> cs[1], quote_currency |-> cs[2]]

\* an event of the calendar: its "currency" and its "impact"
Event(currency, impact) == [currency |-> currency, impact |-> impact]
Impacts == {"LOW", "MEDIUM", "HIGH"}
EventPool ==
    {Event(<<"A", "A", "A">>, "HIGH"), Event(<<"-", "A", "A", "A">>, "SEVERE")}

\* what analyze_events_with_ai returns for a non-empty list of events
EventAnalyses == {Opinion("BUY", 80, <<>>), Opinion("NEUTRAL", 50, <<>>)}

\* the body of analyze_economic_events; ai is what analyze_events_with_ai
\* answers when it is called
analyze_economic_events(evs, currency_pair, ai) ==
    LET cs == pair_currencies(currency_pair)
        relevant_events ==
            {e \in evs : e.currency \in {cs.base_currency, cs.quote_currency}}
    IN  IF \E e \in relevant_events : e.impact \notin Impacts
          THEN economic_error       \* list.index raises ValueError in the sort
        ELSE IF relevant_events = {} THEN Opinion("NEUTRAL", 0, <<>>)
        ELSE ai

InitCalendar ==
    /\ InitFusion
    /\ InitReflection
    /\ technical_data = NoTechnicalData
    /\ technical_analysis = NoTechnicalCall
    /\ pair \in PairStrings
    /\ events \in SUBSET EventPool
    /\ currencies = [NoCurrencies EXCEPT !.stage = "called"]
    /\ InitSockets

\* one analyze_economic_events call
AnalyzeEconomicEvents ==
    /\ currencies.stage = "called"
    /\ \E ai \in EventAnalyses :
           LET cs == pair_currencies(pair)
           IN  currencies' =
                   [stage |-> "done", raised |-> "none",
                    base |-> cs.base_currency, quote |-> cs.quote_currency,
                    value |-> analyze_economic_events(events, pair, ai)]
    /\ UNCHANGED <<technical_data, technical_analysis, pair, events>>
    /\ UNCHANGED socket_vars
    /\ UNCHANGED fusion_vars
    /\ UNCHANGED reflection_vars

SpecCalendar == InitCalendar /\ [][AnalyzeEconomicEvents]_vars

----------------------------------------------------------------------------
(* Specifications                                                          *)

Init == InitFusion /\ InitReflection /\ InitUnits

\* one analyze_forex_pair request
Next == SourceAnalyses \/ CombineAnalyses \/ SignalStep

Spec == Init /\ [][Next]_vars

\* reflections served by concurrent workers: every database round trip is a
\* step, and the steps of different workers interleave
NextReflection ==
    \E w \in Workers :
        \/ StartReflection(w)
        \/ GenerateReflection(w)
        \/ ReadMetrics(w)
        \/ SaveLookup(w)
        \/ SaveWrite(w)

SpecReflection == Init /\ [][NextReflection]_vars

\* reflections served one after the other, by one worker
NextSequential ==
    \E w \in {"w1"} :
        \/ AllIdle /\ StartReflection(w)
        \/ GenerateReflection(w)
        \/ ReadMetrics(w)
        \/ SaveLookup(w)
        \/ SaveWrite(w)

SpecSequential == Init /\ [][NextSequential]_vars

\* _update_performance_metrics calls made one after the other on one bucket
MaxUpdates == 12

\* the factors_analysis arguments of those calls: the report of a failed
\* reasoning call, and one whose values are not dicts
UpdateReports ==
    {fallback_factors_analysis,
     Report(FALSE, [k \in {"technical"} |-> Analysis(Frac(0, 1), Frac(0, 1))])}

\* reflection.py:247-311 with supabase.py:448-478: one whole call, the save
\* included; an exception is logged and nothing is saved.  The call has no
\* signal_id argument.
UpdatePerformanceMetrics ==
    \E key \in BucketKeys, was_accurate \in BOOLEAN,
       factors_analysis \in UpdateReports :
        /\ completed[key].calls < MaxUpdates
        /\ LET found == get_performance_metrics(metrics_table, key[1], key[2])
               performance == IF found = <<>>
                              THEN new_performance(key[1], key[2])
                              ELSE found[1]
               metrics_data == updated_performance(performance, was_accurate,
                                                   factors_analysis.items)
               existing == get_performance_metrics(metrics_table,
                                                   metrics_data.currency_pair,
                                                   metrics_data.timeframe)
           IN  IF ~factors_analysis.ok
               THEN UNCHANGED <<metrics_table, next_id, completed>>
               ELSE /\ IF existing # <<>>
                       THEN /\ metrics_table' =
                                   update_row(metrics_table, existing[1].id,
                                              metrics_data)
                            /\ next_id' = next_id
                       ELSE /\ metrics_table' =
                                   insert_row(metrics_table, next_id,
                                              metrics_data)
                            /\ next_id' = next_id + 1
                    /\ completed' = [completed EXCEPT ![key] =
                           [calls |-> @.calls + 1,
                            accurate |-> @.accurate
                                         + IF was_accurate THEN 1 ELSE 0,
                            history |->
                                Append(@.history,
                                       [signal_id |-> "",
                                        was_accurate |-> was_accurate,
                                        items |-> factors_analysis.items])]]
        /\ UNCHANGED <<workers, started>>
        /\ UNCHANGED fusion_vars
        /\ UNCHANGED unit_vars
        /\ UNCHANGED socket_vars

SpecRecent == Init /\ [][UpdatePerformanceMetrics]_vars

\* websockets served by the /ws endpoint and their send_price_updates tasks,
\* interleaved at their awaits
SpecSockets == Init /\ [][NextSockets]_vars

\* fallback_combine_analyses alone, on every combination of four Opinions
FallbackConfidences == {0, 50, 60, 70, 80, 100}

FallbackOpinions ==
    {Opinion(d, c, <<>>) : d \in Directions, c \in FallbackConfidences}

FallbackInputs ==
    /\ stage = "analysed"
    /\ request = [NoRequest EXCEPT !.currency_pair = "EUR/USD",
                                   !.timeframe = "H1"]
    /\ analyses \in [technical : FallbackOpinions,
                     fundamental : FallbackOpinions,
                     sentiment : FallbackOpinions \cup SentimentAnalyses,
                     economic : FallbackOpinions]
    /\ response = Outcome("not_called", NoBody)
    /\ combined_analysis = NoAnalysis
    /\ signal = NoSignal
    /\ raised = NotRaised
    /\ atr = 0
    /\ failed = {}

FallbackCombine ==
    /\ stage = "analysed"
    /\ stage' = "fallback"
    /\ combined_analysis' =
           fallback_combine_analyses(request.currency_pair, request.timeframe,
                                     analyses.technical, analyses.fundamental,
                                     analyses.sentiment, analyses.economic)
    /\ UNCHANGED <<request, analyses, response, signal, raised, atr, failed>>
    /\ UNCHANGED reflection_vars
    /\ UNCHANGED unit_vars
    /\ UNCHANGED socket_vars

InitFallback == FallbackInputs /\ InitReflection /\ InitUnits

SpecFallback == InitFallback /\ [][FallbackCombine]_vars

\* fallback fusions of a bucket's pair and timeframe, made while sequential
\* reflections update the bucket
LearnedOpinions ==
    [technical : {Opinion("NEUTRAL", 50, <<>>), Opinion("BUY", 80, <<>>)},
     fundamental : {Opinion("NEUTRAL", 50, <<>>)},
     sentiment : {Opinion("NEUTRAL", 50, <<>>), Opinion("BUY", 80, <<>>)},
     economic : {Opinion("NEUTRAL", 50, <<>>), Opinion("SELL", 80, <<>>)}]

InitLearned ==
    /\ FallbackInputs
    /\ analyses \in LearnedOpinions
    /\ InitReflection
    /\ InitUnits

NextLearned == NextSequential \/ FallbackCombine

SpecLearned == InitLearned /\ [][NextLearned]_vars

\* analyze_technical_data alone, on every indicator frame of TechnicalInputs
SpecTechnical == InitTechnical /\ [][AnalyzeTechnicalData]_vars

----------------------------------------------------------------------------
(* Claims                                                                  *)

RECURSIVE SetSum(_, _)
\* the sum of f[k] over k in S, for integer f
SetSum(f, S) ==
    IF S = {} THEN 0
    ELSE LET k == CHOOSE x \in S : TRUE IN f[k] + SetSum(f, S \ {k})

FallbackOfRequest ==
    fallback_combine_analyses(request.currency_pair, request.timeframe,
                              analyses.technical, analyses.fundamental,
                              analyses.sentiment, analyses.economic)

\* C1: combine_analyses raises nothing and returns a decision for every four
\* Opinions, and when the reasoning call fails in transport or answers with a
\* body that is not JSON, the decision is the one fallback_combine_analyses
\* computes from the same Opinions.
C1_CombineNeverRaises ==
    stage \in {"combined", "returned"} =>
        /\ raised.by # "combine_analyses"
        /\ response.kind \in {"transport_error", "non_json"} =>
               combined_analysis = FallbackOfRequest

\* the vote of a direction in the combined value
Vote(direction) ==
    IF direction = "BUY" THEN 1 ELSE IF direction = "SELL" THEN -1 ELSE 0

\* the combined value of the four Opinions in hand, in hundredths
Combined == SetSum([s \in SourceSet |-> Vote(analyses[s].direction) * weights(s)],
                   SourceSet)

\* C2: the fallback returns BUY iff combined > 0.2, SELL iff combined < -0.2
\* and NEUTRAL iff -0.2 <= combined <= 0.2, combined being the sum over the
\* four sources of the vote (+1, 0, -1) times the source's weight.
C2_FallbackDirection ==
    stage = "fallback" =>
        /\ combined_analysis.direction = "BUY" <=> Combined > 20
        /\ combined_analysis.direction = "SELL" <=> Combined < -20
        /\ combined_analysis.direction = "NEUTRAL" <=>
               (-20 <= Combined /\ Combined <= 20)

\* C2 witness: a combined value on the boundary, 0.2 exactly, gives NEUTRAL
C2_Witness ==
    /\ stage = "fallback"
    /\ Combined = 20
    /\ combined_analysis.direction = "NEUTRAL"

\* the sources whose direction is the direction the fallback chose
Agreeing == {s \in SourceSet : analyses[s].direction = combined_analysis.direction}

ScenarioA ==
    /\ analyses.technical = Opinion("BUY", 80, <<>>)
    /\ analyses.fundamental = Opinion("SELL", 60, <<>>)
    /\ analyses.sentiment = Opinion("NEUTRAL", 50, <<>>)
    /\ analyses.economic = Opinion("BUY", 70, <<>>)

\* C3: the fallback confidence is the mean of the confidences of exactly the
\* sources that agree with the chosen direction, 0.5 when none agrees, and in
\* [0,1]; BUY 0.8 / SELL 0.6 / NEUTRAL 0.5 / BUY 0.7 gives BUY at 0.75.
C3_FallbackConfidence ==
    stage = "fallback" =>
        LET c == combined_analysis.confidence_score
        IN  /\ Agreeing = {} => c = Frac(50, 1)
            /\ Agreeing # {} =>
                   c.n * Cardinality(Agreeing) =
                   c.d * SetSum([s \in SourceSet |->
                                    analyses[s].confidence_score], Agreeing)
            /\ 0 <= c.n /\ c.n <= 100 * c.d
            /\ ScenarioA => /\ combined_analysis.direction = "BUY"
                            /\ c = Frac(75, 1)

\* C3 witness: scenario A has been combined
C3_Witness == stage = "fallback" /\ ScenarioA

\* C4: a Signal (generate = True) is produced only for a decision whose
\* direction is BUY or SELL and whose confidence is at least 0.65; a decision
\* that is NEUTRAL or below 0.65 yields a suppressed result with a reason.
C4_SignalGate ==
    (stage = "returned" /\ raised = NotRaised) =>
        LET confident == FracGeq(combined_analysis.confidence_score,
                                 Frac(65, 1))
        IN  /\ signal.generate =>
                   combined_analysis.direction \in {"BUY", "SELL"} /\ confident
            /\ (combined_analysis.direction = "NEUTRAL" \/ ~confident) =>
                   ~signal.generate /\ signal.reason # ""

\* C9: a generated Signal enters at the ask for BUY and at the bid for SELL;
\* with volatility unit v, BUY has stop = entry - 1.5 v and target =
\* entry + 2.5 v, SELL has stop = entry + 1.5 v and target = entry - 2.5 v
\* (entry 1.1000, v 0.0050, BUY: stop 1.0925, target 1.1125).
C9_StopAndTarget ==
    (stage = "returned" /\ signal.generate) =>
        /\ signal.direction = "BUY" =>
               /\ signal.entry_price = request.current_price.ask
               /\ 10 * (signal.entry_price - signal.stop_loss) = 15 * atr
               /\ 10 * (signal.take_profit - signal.entry_price) = 25 * atr
        /\ signal.direction = "SELL" =>
               /\ signal.entry_price = request.current_price.bid
               /\ 10 * (signal.stop_loss - signal.entry_price) = 15 * atr
               /\ 10 * (signal.entry_price - signal.take_profit) = 25 * atr
        /\ (signal.direction = "BUY" /\ signal.entry_price = 1100000
            /\ atr = 5000) =>
               signal.stop_loss = 1092500 /\ signal.take_profit = 1112500

\* C9 witness: the BUY signal at 1.1000 with a volatility unit of 0.0050
C9_Witness ==
    /\ stage = "returned"
    /\ signal.generate
    /\ signal.direction = "BUY"
    /\ signal.entry_price = 1100000
    /\ atr = 5000

\* C10: a generated Signal's risk_reward_ratio is |target - entry| /
\* |entry - stop| when the risk distance is positive, and 0, with no error,
\* when the risk distance is 0.
C10_RiskReward ==
    (stage = "returned" /\ signal.generate) =>
        LET risk == Abs(signal.entry_price - signal.stop_loss)
            reward == Abs(signal.take_profit - signal.entry_price)
        IN  /\ raised = NotRaised
            /\ risk > 0 =>
                   signal.risk_reward_ratio.n * risk =
                   signal.risk_reward_ratio.d * reward
            /\ risk = 0 => signal.risk_reward_ratio = Frac(0, 1)

\* C10 witness: a generated signal whose risk distance is 0
C10_Witness ==
    /\ stage = "returned"
    /\ signal.generate
    /\ signal.entry_price = signal.stop_loss

\* the bucket the table answers with for a key, and its counters
Stored(key) == get_performance_metrics(metrics_table, key[1], key[2])
StoredTotal(key) == IF Stored(key) = <<>> THEN 0 ELSE Stored(key)[1].total_signals
StoredAccurate(key) ==
    IF Stored(key) = <<>> THEN 0 ELSE Stored(key)[1].accurate_signals

\* C5: reflections for one bucket never lose an update: once k
\* _update_performance_metrics calls have completed, in whatever interleaving,
\* the stored total_signals is k and the stored accurate_signals is the number
\* of those calls with was_accurate = True.
C5_NoLostUpdate ==
    AllIdle =>
        \A key \in BucketKeys :
            /\ StoredTotal(key) = completed[key].calls
            /\ StoredAccurate(key) = completed[key].accurate

\* C6: after every reflection update, whatever the report (all zero, fewer
\* keys, other keys), the weights of technical, fundamental, sentiment and
\* economic sum to exactly 1.
C6_WeightsSumToOne ==
    \A i \in 1..Len(metrics_table) :
        FracSum(metrics_table[i].factor_weights, SourceSet) = Frac(1, 1)

C7_Counters_Inv ==
    \A key \in BucketKeys :
        /\ StoredTotal(key) = completed[key].calls
        /\ StoredAccurate(key) = completed[key].accurate
        /\ StoredAccurate(key) <= StoredTotal(key)
        /\ Stored(key) # <<>> =>
               Stored(key)[1].accuracy_rate.n * StoredTotal(key) =
               Stored(key)[1].accuracy_rate.d * StoredAccurate(key)

C7_Counters_Step ==
    \A w \in Workers, key \in BucketKeys :
        (/\ SaveWrite(w)
         /\ ~workers[w].was_accurate
         /\ key = <<workers[w].performance.currency_pair,
                    workers[w].performance.timeframe>>) =>
            /\ StoredAccurate(key)' = StoredAccurate(key)
            /\ StoredTotal(key)' = StoredTotal(key) + 1

\* C7: after sequential reflections on a bucket, total_signals is the number
\* of reflections applied, accurate_signals the number of them that were
\* accurate (so at most total_signals), accuracy_rate their quotient; an
\* inaccurate reflection leaves accurate_signals and adds 1 to total_signals.
C7_Counters == []C7_Counters_Inv /\ [][C7_Counters_Step]_vars

\* C7 witness: three reflections applied to the bucket, one of them accurate
C7_Witness ==
    /\ AllIdle
    /\ StoredTotal(<<"EUR/USD", "H1">>) = 3
    /\ StoredAccurate(<<"EUR/USD", "H1">>) = 1

\* C8: the was_accurate value fed into the bucket update is True exactly when
\* direction = BUY and exit_price >= entry_price, or direction = SELL and
\* exit_price <= entry_price.
C8_WasAccurate ==
    \A w \in Workers :
        workers[w].pc = "reflecting" =>
            LET sig == signal_of(w)
            IN  workers[w].was_accurate <=>
                    \/ sig.direction = "BUY"
                       /\ workers[w].price_at_close >= sig.entry_price
                    \/ sig.direction = "SELL"
                       /\ workers[w].price_at_close <= sig.entry_price

\* C11: for every generated Signal, whatever the bid/ask and the volatility
\* unit derived, |entry_price - stop_loss| is strictly smaller than
\* |take_profit - entry_price|.
C11_LossSideSmaller ==
    (stage = "returned" /\ signal.generate) =>
        Abs(signal.entry_price - signal.stop_loss)
            < Abs(signal.take_profit - signal.entry_price)

\* the call of the scorer is over and returned an Opinion
TechnicalReturned ==
    technical_analysis.stage = "done" /\ technical_analysis.raised = "none"

\* C12: given a record with fewer than 50 periods, the Technical Scorer
\* raises nothing and returns NEUTRAL, confidence 0.0 and a factor list that
\* holds one factor, named insufficient_data.
C12_InsufficientData ==
    (/\ technical_analysis.stage = "done"
     /\ technical_data.has_instrument
     /\ technical_data.tabular
     /\ technical_data.periods < 50) =>
        /\ technical_analysis.raised = "none"
        /\ technical_analysis.value.direction = "NEUTRAL"
        /\ technical_analysis.value.confidence_score = Frac(0, 1)
        /\ technical_analysis.value.factors = <<"insufficient_data">>

\* C12 witness: the scorer was called with 40 periods
C12_Witness ==
    /\ technical_analysis.stage = "done"
    /\ technical_data.has_instrument
    /\ technical_data.tabular
    /\ technical_data.periods = 40

\* confidence c (hundredths) is in [0.5, 1.0], and 0.5 iff the scores tie
HalfToOne(opinion) ==
    /\ FracGeq(opinion.confidence_score, Frac(50, 1))
    /\ FracGeq(Frac(100, 1), opinion.confidence_score)
    /\ opinion.confidence_score = Frac(50, 1) <=>
           opinion.buy_score = opinion.sell_score

\* C13 as stated: every Opinion the Technical Scorer returns, for every
\* input, has confidence in [0.5, 1.0], and exactly 0.5 iff buy_score ==
\* sell_score.
C13_ConfidenceRange ==
    TechnicalReturned => HalfToOne(technical_analysis.value)

\* C13 amended: every Opinion the Technical Scorer returns from a readable
\* frame of at least 50 periods has confidence in [0.5, 1.0], exactly 0.5 iff
\* buy_score == sell_score; the Opinion for fewer than 50 periods and the one
\* for an unreadable frame carry an error and have confidence 0.0.
C13_ConfidenceRangeAmended ==
    TechnicalReturned =>
        IF technical_data.tabular /\ technical_data.periods >= 50
        THEN /\ ~technical_analysis.value.error
             /\ HalfToOne(technical_analysis.value)
        ELSE /\ technical_analysis.value.error
             /\ technical_analysis.value.confidence_score = Frac(0, 1)

\* C13 witness: a scored Opinion whose confidence reached the cap 1.0
C13_Witness ==
    /\ TechnicalReturned
    /\ ~technical_analysis.value.error
    /\ technical_analysis.value.confidence_score = Frac(100, 1)
    /\ technical_analysis.value.total_signals > 0

\* |a - b| of two fractions
FracDist(a, b) == IF FracLt(a, b) THEN FracSub(b, a) ELSE FracSub(a, b)

\* C20: for every input of at least 50 periods, with buy_score = buy_votes /
\* total_possible_votes and sell_score analogously, the scorer returns BUY iff
\* buy_score > sell_score, SELL iff sell_score > buy_score, NEUTRAL iff they
\* are equal; the confidence is 0.5 + min(0.5, 2*|buy_score - sell_score|)
\* when a direction wins and exactly 0.5 otherwise.
C20_Scoring ==
    (TechnicalReturned /\ technical_data.tabular
     /\ technical_data.periods >= 50) =>
        LET o == technical_analysis.value
            twice == FracMul(FracDist(o.buy_score, o.sell_score), Frac(200, 1))
        IN  /\ o.total_signals > 0 =>
                /\ o.buy_score.n * o.total_signals
                       = o.buy_score.d * o.buy_signals
                /\ o.sell_score.n * o.total_signals
                       = o.sell_score.d * o.sell_signals
            /\ o.direction = "BUY" <=> FracLt(o.sell_score, o.buy_score)
            /\ o.direction = "SELL" <=> FracLt(o.buy_score, o.sell_score)
            /\ o.direction = "NEUTRAL" <=> o.buy_score = o.sell_score
            /\ o.direction # "NEUTRAL" =>
                   o.confidence_score =
                       FracAdd(Frac(50, 1),
                               IF FracLt(twice, Frac(50, 1)) THEN twice
                               ELSE Frac(50, 1))
            /\ o.direction = "NEUTRAL" => o.confidence_score = Frac(50, 1)

\* C20 witness: votes on both sides tie, and the scorer answered NEUTRAL
C20_Witness ==
    /\ TechnicalReturned
    /\ technical_data.periods >= 50
    /\ technical_analysis.value.buy_signals > 0
    /\ technical_analysis.value.buy_signals
           = technical_analysis.value.sell_signals
    /\ technical_analysis.value.total_signals > 0
    /\ technical_analysis.value.direction = "NEUTRAL"

\* a worker whose reasoning call failed and whose report is in hand
CallFailed(w) ==
    /\ workers[w].call \in {"transport_error", "non_json"}
    /\ workers[w].pc \in {"updating", "saving", "writing"}

C14_Report ==
    \A w \in Workers :
        CallFailed(w) =>
            /\ workers[w].reflection = "Error generating reflection"
            /\ workers[w].lessons_learned = 1
            /\ DOMAIN workers[w].factors_analysis.items = SourceSet
            /\ \A k \in SourceSet :
                   workers[w].factors_analysis.items[k] =
                       Analysis(Frac(0, 1), Frac(0, 1))

C14_UpdateProceeds ==
    \A w \in Workers, key \in BucketKeys :
        (/\ CallFailed(w)
         /\ key = <<signal_of(w).currency_pair, signal_of(w).timeframe>>) =>
            /\ ReadMetrics(w) => workers'[w].pc = "saving"
            /\ SaveLookup(w) => workers'[w].pc = "writing"
            /\ SaveWrite(w) =>
                   /\ StoredTotal(key)' = StoredTotal(key) + 1
                   /\ StoredAccurate(key)' =
                          StoredAccurate(key)
                          + IF workers[w].was_accurate THEN 1 ELSE 0

BucketWeights ==
    LET found == Stored(<<request.currency_pair, request.timeframe>>)
    IN  IF found = <<>>
        THEN [s \in SourceSet |-> Frac(weights(s), 100)]
        ELSE [s \in SourceSet |-> found[1].factor_weights[s]]

\* the combined value under those weights, and the direction it gives
LearnedCombined ==
    FracSum([s \in SourceSet |->
                FracMul(Frac(Vote(analyses[s].direction), 1), BucketWeights[s])],
            SourceSet)

LearnedDirection ==
    IF FracLt(Frac(20, 100), LearnedCombined) THEN "BUY"
    ELSE IF FracLt(LearnedCombined, Frac(-20, 100)) THEN "SELL"
    ELSE "NEUTRAL"

\* C15: a fallback fusion computes the combined value with the current
\* learned factor_weights of its bucket (the defaults 0.4/0.3/0.15/0.15 only
\* when the bucket has none), so its direction is the one those weights give.
C15_LearnedWeights ==
    [][FallbackCombine => combined_analysis'.direction = LearnedDirection]_vars

\* C16: a fallback fusion whose four Opinions are all NEUTRAL, or whose
\* combined value is 0, gives NEUTRAL with confidence exactly 0.5, whatever
\* the confidences of the sources.
C16_TiesNeutralHalf ==
    (/\ stage = "fallback"
     /\ \/ \A s \in SourceSet : analyses[s].direction = "NEUTRAL"
        \/ Combined = 0) =>
        /\ combined_analysis.direction = "NEUTRAL"
        /\ combined_analysis.confidence_score = Frac(50, 1)

\* C17: a response that parses as JSON but violates the fusion schema
\* triggers the fallback, so every decision combine_analyses returns has a
\* direction in {BUY, SELL, NEUTRAL} and a confidence_score in [0,1], and the
\* rest of analyze_forex_pair never fails on it.
C17_SchemaChecked ==
    (stage \in {"combined", "returned"} /\ response.kind = "json") =>
        /\ combined_analysis.has_direction
        /\ combined_analysis.direction \in Directions
        /\ combined_analysis.has_confidence_score
        /\ FracGeq(combined_analysis.confidence_score, Frac(0, 1))
        /\ FracGeq(Frac(100, 1), combined_analysis.confidence_score)
        /\ raised = NotRaised

\* a pair of the form XXX/YYY, or a bare code of six letters
IsCode(s) == Len(s) = 3 /\ \A i \in 1..3 : s[i] \in Letters
WellFormedPair(s) ==
    \/ Len(s) = 7 /\ s[4] = "/" /\ IsCode(SubSeq(s, 1, 3))
                 /\ IsCode(SubSeq(s, 5, 7))
    \/ Len(s) = 6 /\ IsCode(SubSeq(s, 1, 3)) /\ IsCode(SubSeq(s, 4, 6))

\* C18: a currency-pair string is accepted only if it has the form XXX/YYY or
\* is a bare code of six characters, split 3/3; for every other string the
\* analysis fails with InvalidPairFormatError and derives no base and quote
\* currency.
C18_InvalidPairRejected ==
    currencies.stage = "done" =>
        IF WellFormedPair(pair)
          THEN /\ currencies.raised = "none"
               /\ currencies.base = SliceTo(pair, 3)
               /\ currencies.quote = SubSeq(pair, Len(pair) - 2, Len(pair))
          ELSE currencies.raised = "InvalidPairFormatError"

\* the functions analyze_forex_pair awaits for its four sources
SourceFunctions ==
    {"analyze_technical_data", "analyze_fundamental_data",
     "analyze_sentiment_data", "analyze_economic_events"}

HasErrorFactor(opinion) ==
    \E i \in 1..Len(opinion.factors) : opinion.factors[i].name = "error"

\* C19: in one analyze_forex_pair request a failure inside a source analysis
\* never aborts the request: no exception of a source function leaves the
\* request, the failed source's Opinion is NEUTRAL with confidence 0 and an
\* error factor, and the fusion receives all four Opinions.
C19_SourceFailureDegrades ==
    /\ raised.by \notin SourceFunctions
    /\ stage # "start" =>
           \A src \in failed :
               /\ analyses[src].direction = "NEUTRAL"
               /\ analyses[src].has_confidence_score
               /\ analyses[src].confidence_score = 0
               /\ HasErrorFactor(analyses[src])

\* the votes of an indicator group that ran to its end, none for a group that
\* failed on the way
CompletedVotes(votes, ran_through) ==
    IF ran_through THEN votes ELSE Votes(0, 0, 0, <<>>)

\* the groups of the frame in hand, each counted only when it completed
CompletedGroups ==
    LET d == technical_data
    IN  <<CompletedVotes(trend_analysis(d.trend),
                         d.trend.has_sma /\ d.trend.has_ema),
          CompletedVotes(momentum_analysis(d.momentum), d.momentum.has_rsi),
          CompletedVotes(volatility_analysis(d.volatility, d.has_hlc),
                         d.has_hlc),
          CompletedVotes(support_resistance_analysis(d.levels, d.has_hlc),
                         d.has_hlc)>>

\* C21: when a sub-computation of an indicator group fails, the scorer still
\* returns an Opinion and that group contributes no votes: buy_votes and
\* sell_votes are the votes of the groups that completed, and
\* total_possible_votes counts the possible votes of those same groups.
C21_GroupIsolation ==
    (/\ technical_analysis.stage = "done"
     /\ technical_data.has_instrument
     /\ technical_data.tabular
     /\ technical_data.periods >= MinPeriods) =>
        LET o == technical_analysis.value
            g == CompletedGroups
        IN  /\ technical_analysis.raised = "none"
            /\ ~o.error
            /\ o.buy_signals = g[1].buy + g[2].buy + g[3].buy + g[4].buy
            /\ o.sell_signals = g[1].sell + g[2].sell + g[3].sell + g[4].sell
            /\ o.total_signals
                   = g[1].total + g[2].total + g[3].total + g[4].total

\* the positions of the dict factors named atr that carry a non-zero value
AtrFactors(factors) ==
    {i \in 1..Len(factors) :
        /\ factors[i].kind = "dict"
        /\ factors[i].name = "atr"
        /\ factors[i].value # 0}

\* C22: when the technical factor list of the CombinedDecision holds a factor
\* named atr with a non-zero value, the Signal Builder uses that value as the
\* volatility unit of stop_loss and take_profit; it uses 0.5% of the entry
\* price only when there is no such factor.
C22_AtrFromFactors ==
    (stage = "returned" /\ signal.generate) =>
        LET factors == combined_analysis.technical_factors
            named == AtrFactors(factors)
        IN  IF named # {}
              THEN \E i \in named :
                       /\ atr = factors[i].value
                       /\ signal.stop_loss
                              = stop_loss_of(signal.direction,
                                             signal.entry_price,
                                             factors[i].value)
                       /\ signal.take_profit
                              = take_profit_of(signal.direction,
                                               signal.entry_price,
                                               factors[i].value)
              ELSE atr = default_atr(signal.entry_price)

\* C23: every Signal the Signal Builder generates carries the four factor
\* lists of its CombinedDecision (technical, fundamental, sentiment,
\* economic) and its reasoning text unchanged, so that a later reflection can
\* read all four lists from the Signal.
C23_SignalCarriesFactors ==
    (stage = "returned" /\ signal.generate) =>
        /\ signal.technical_factors = combined_analysis.technical_factors
        /\ signal.fundamental_factors = combined_analysis.fundamental_factors
        /\ signal.has_sentiment_factors
        /\ signal.sentiment_factors = combined_analysis.sentiment_factors
        /\ signal.economic_events = combined_analysis.economic_factors
        /\ signal.ai_reasoning = combined_analysis.reasoning

\* what a sentiment result means for the pair: +1 bullish, -1 bearish
SentimentSign(direction) ==
    IF direction \in {"BUY", "bullish"} THEN 1
    ELSE IF direction \in {"SELL", "bearish"} THEN -1 ELSE 0

\* the combined value of the request with the sentiment result counted by
\* its meaning, in hundredths
CombinedWithSentiment ==
    Vote(analyses.technical.direction) * weights("technical")
    + Vote(analyses.fundamental.direction) * weights("fundamental")
    + SentimentSign(analyses.sentiment.direction) * weights("sentiment")
    + Vote(analyses.economic.direction) * weights("economic")

\* C24: every Opinion a source analysis hands to the Fusion Engine, the
\* sentiment adapter's included, has a direction in {BUY, SELL, NEUTRAL} and a
\* confidence in [0,1] under the key the fusion reads, so a bullish or bearish
\* sentiment result counts its weight times +1 or -1 in the combined value of
\* the fallback.
C24_CommonShape ==
    /\ stage \in {"analysed", "combined"} =>
           \A src \in SourceSet :
               /\ analyses[src].direction \in Directions
               /\ analyses[src].has_confidence_score
               /\ analyses[src].confidence_score \in 0..100
    /\ (stage = "combined"
        /\ response.kind \in {"transport_error", "non_json"}) =>
           combined_analysis.direction
               = fallback_direction(CombinedWithSentiment)

\* the saved updates of a bucket that reported a sample for a source
Reporting(key, source) ==
    {i \in 1..Len(completed[key].history) :
        source \in DOMAIN completed[key].history[i].items}

RECURSIVE SampleSum(_, _, _)
\* the sum of the accuracy samples of a source in the first n saved updates
SampleSum(key, source, n) ==
    IF n = 0 THEN Frac(0, 1)
    ELSE FracAdd(completed[key].history[n].items[source].accuracy,
                 SampleSum(key, source, n - 1))

\* C25: factor_accuracy[source] is a running mean: starting from a bucket
\* with no history, after n sequential reflections on the bucket that each
\* report an accuracy sample for the source, factor_accuracy[source] is the
\* arithmetic mean of the n samples.
C25_RunningMean ==
    \A key \in BucketKeys, source \in SourceSet :
        LET n == completed[key].calls
        IN  (n > 0 /\ Reporting(key, source) = 1..n) =>
                /\ Stored(key) # <<>>
                /\ Stored(key)[1].total_signals = n
                /\ Stored(key)[1].factor_accuracy[source]
                       = FracDiv(SampleSum(key, source, n), Frac(n, 1))

\* C25 witness: three reflections were saved with the technical samples 1, 0
\* and 1 in some order, and the stored technical accuracy is 2/3
C25_Witness ==
    \E key \in BucketKeys :
        /\ completed[key].calls = 3
        /\ Reporting(key, "technical") = 1..3
        /\ SampleSum(key, "technical", 3) = Frac(2, 1)
        /\ Stored(key) # <<>>
        /\ Stored(key)[1].factor_accuracy["technical"] = Frac(2, 3)

\* the recent outcomes the table holds for a bucket
StoredRecent(key) ==
    IF Stored(key) = <<>> THEN <<>> ELSE Stored(key)[1].recent_signals

\* C26: after any sequence of reflection updates on a bucket, the bucket's
\* recent outcomes have length min(number of updates, 10) and hold the
\* was_accurate values of the most recent updates in the order they were
\* applied, oldest first.
C26_RecentOutcomes ==
    \A key \in BucketKeys :
        LET h == completed[key].history
            n == Len(h)
            r == StoredRecent(key)
        IN  /\ Len(r) = IF n < 10 THEN n ELSE 10
            /\ \A i \in 1..Len(r) : r[i] = h[n - Len(r) + i].was_accurate

\* C26 witness: twelve updates were applied, the two oldest outcomes (both
\* accurate) are gone and the sequence starts at the third (not accurate)
C26_Witness ==
    \E key \in BucketKeys :
        LET h == completed[key].history
        IN  /\ Len(h) = 12
            /\ h[1].was_accurate /\ h[2].was_accurate /\ ~h[3].was_accurate
            /\ Len(StoredRecent(key)) = 10
            /\ ~StoredRecent(key)[1]

\* the signals whose reflections were saved into a bucket
ReflectedSignals(key) ==
    {completed[key].history[i].signal_id :
        i \in 1..Len(completed[key].history)}

\* C27: each closed Signal is counted at most once in its bucket: after any
\* sequence of reflect_on_signal_outcome calls, repeated calls for one
\* signal_id included, the bucket's total_signals is the number of distinct
\* signals of that pair and timeframe that have been reflected on.
C27_CountedOnce ==
    \A key \in BucketKeys :
        StoredTotal(key) = Cardinality(ReflectedSignals(key))

\* C28: at most one PerformanceBucket record exists per (currency_pair,
\* timeframe) in every reachable state, also when two first reflections for
\* one key interleave in save_performance_metrics.
C28_OneRecordPerKey ==
    \A i, j \in 1..Len(metrics_table) :
        (/\ metrics_table[i].currency_pair = metrics_table[j].currency_pair
         /\ metrics_table[i].timeframe = metrics_table[j].timeframe) => i = j

\* the collections of the manager that still hold a websocket
Holding(ws) ==
    (IF InList(manager.active_connections, ws)
     THEN {"active_connections"} ELSE {})
    \cup (IF \E i \in 1..Len(manager.user_connections) :
                InList(manager.user_connections[i].value, ws)
          THEN {"user_connections"} ELSE {})
    \cup (IF \E i \in 1..Len(manager.market_subscribers) :
                ws \in manager.market_subscribers[i].value
          THEN {"market_subscribers"} ELSE {})
    \cup (IF \E i \in 1..Len(manager.signal_subscribers) :
                ws \in manager.signal_subscribers[i].value
          THEN {"signal_subscribers"} ELSE {})
    \cup (IF ws \in manager.news_subscribers
          THEN {"news_subscribers"} ELSE {})

\* C29: after ConnectionManager.disconnect(ws), in any state that connect,
\* subscribe_to_market, subscribe_to_news and unsubscribe calls reach, ws is
\* in none of active_connections, user_connections, market_subscribers,
\* signal_subscribers and news_subscribers, and disconnect raised nothing.
C29_DisconnectCleans ==
    \A ws \in WebSockets :
        disconnects[ws] # "none" =>
            /\ disconnects[ws] = "returned"
            /\ Holding(ws) = {}

C30_OneTask ==
    \A ws \in WebSockets, currency_pair \in MarketPairs :
        price_tasks[<<ws, currency_pair>>] <= 1

C30_EndsWhenUnsubscribed ==
    \A ws \in WebSockets, currency_pair \in MarketPairs :
        (/\ SendPriceUpdates(ws, currency_pair)
         /\ ~subscribed(manager, ws, currency_pair)) =>
            price_tasks'[<<ws, currency_pair>>] = 0

\* C30: for every websocket and pair, after any sequence of subscribe and
\* unsubscribe messages on the market topic, at most one send_price_updates
\* loop is running for that websocket and pair, and none is running once the
\* websocket is unsubscribed from the pair and its loop has made its next
\* subscription check.
C30_OneLoopPerSubscription ==
    []C30_OneTask /\ [][C30_EndsWhenUnsubscribed]_vars

====
